---- MODULE Spec2Model ----
(***************************************************************************)
(* Change detection and snapshot history of clinicaltrial-watch:          *)
(* src/src/main.py, src/src/diff_engine.py, src/src/crawler.py.           *)
(*                                                                         *)
(* Files on disk are values: a file is absent, unparseable ("corrupt":     *)
(* empty, truncated or malformed JSON) or holds a JSON value.  A thread    *)
(* running process_trial is a task whose pc walks through the file         *)
(* operations of the function in source order; each step is one file       *)
(* operation.  Time is counted in ticks, TicksPerDay to a day, and a       *)
(* timestamp is the pair date/time-of-day that strftime prints.            *)
(***************************************************************************)
EXTENDS Integers, Sequences, FiniteSets, TLC

\* ------------------------------------------------------------------ bounds
MaxFaults == 1        \* file writes that fail during one run of main()
MaxHist == 2          \* the source stops changing a record after this many
                      \* ledger entries; no group ledger grows beyond it
TicksPerDay == 2      \* resolution of the clock: ticks in one day
WINDOW_DAYS == 30     \* main.py:263 timedelta(days=30)
Window == WINDOW_DAYS * TicksPerDay

\* ------------------------------------------------------------------ records
Ids == {"NCT01", "NCT02"}

\* trials.yaml as load_config returns it (main.py:22-82): the groups in
\* order, each with its records in order
TARGETS ==
  << [name |-> "tigit", trials |-> <<"NCT01", "NCT02">>],
     [name |-> "pd1", trials |-> <<"NCT02">>] >>

TargetNames == { TARGETS[g].name : g \in 1..Len(TARGETS) }

\* the size of the thread pool: main.py:324 sets 10, here it is scaled down
\* with the groups of TARGETS so that a group still has more records than
\* the pool has threads
MAX_WORKERS == 1

\* the futures of main.py:361-364, numbered in submission order over all groups
GroupSize(g) == Len(TARGETS[g].trials)

RECURSIVE Base(_)
Base(g) == IF g = 1 THEN 0 ELSE Base(g - 1) + GroupSize(g - 1)

TasksOf(g) == (Base(g) + 1)..(Base(g) + GroupSize(g))

TaskIds == 1..Base(Len(TARGETS) + 1)

GroupOf(k) == CHOOSE g \in 1..Len(TARGETS) : k \in TasksOf(g)

TrialOf(k) == TARGETS[GroupOf(k)].trials[k - Base(GroupOf(k))]

\* A record as the API returns it: the protocol section (one watched field,
\* one field outside the fallback watch list) and a section the detector
\* never looks at.
Rec(s, b, v) ==
  [protocolSection |-> [overallStatus |-> s, briefSummary |-> b],
   derivedSection |-> v]

Payloads ==
  { Rec("RECRUITING", "b1", "v1"), Rec("COMPLETED", "b1", "v1"),
    Rec("RECRUITING", "b2", "v1"), Rec("RECRUITING", "b1", "v2") }

\* fetch_trial_data returns None on every failure (crawler.py:65-75)
Null == [protocolSection |-> [overallStatus |-> "", briefSummary |-> ""],
         derivedSection |-> "null"]

\* ------------------------------------------------------------------ files
Absent == [kind |-> "absent", val |-> <<>>]
Corrupt == [kind |-> "corrupt", val |-> <<>>]
JsonFile(v) == [kind |-> "json", val |-> v]
\* valid JSON that is not a list: an object with a member, as {"a": 1}
NotAList == [kind |-> "object", val |-> <<>>]

\* os.path.exists
Exists(file) == file.kind # "absent"

\* main.py:87-98: the default when the file is missing or does not parse
safe_json_load(file, default) ==
  IF file.kind = "json" THEN file.val ELSE default

HistLen(file) == Len(safe_json_load(file, <<>>))

\* ------------------------------------------------------------------ clock
\* datetime.now().strftime("%Y-%m-%d %H:%M:%S")
strftime(t) == [date |-> t \div TicksPerDay, time |-> t % TicksPerDay]
\* datetime.strptime(ts, "%Y-%m-%d %H:%M:%S")
strptime(ts) == ts.date * TicksPerDay + ts.time
\* ts.split(' ')[0]
DatePart(ts) == ts.date

\* no function has been called on its own
NoCall == [fn |-> ""]

VARIABLES
  HAS_DEEPDIFF,     \* diff_engine.py:4-8, fixed when the module is imported
  now,              \* the wall clock, in ticks
  snapFile,         \* data/snapshots/<id>_latest.json, per id
  snapshot_dir,     \* whether the directory data/snapshots exists
  history_dir,      \* whether the directory data/history exists
  call,             \* a function called on its own: its arguments and result
  histFile,         \* data/history/<id>_history.json, per id
  targetHistFile,   \* data/history/target_<name>.json, per group
  summaryFile,      \* data/targets/<name>/status_summary.json, per group
  task,             \* the threads running process_trial / update_history
  lastRun,          \* per id: what the last completed process_trial left
  lastUTH,          \* the last update_target_history call: before and after
  orch,             \* the thread running main(): its place and its locals
  remote            \* per id: the versions of the record the source may serve

vars == <<call, HAS_DEEPDIFF, now, snapFile, snapshot_dir, history_dir,
          histFile, targetHistFile, summaryFile, task, lastRun, lastUTH, orch, remote>>

\* ------------------------------------------------------------------ detector
ProtOrder == <<"overallStatus", "briefSummary">>

\* diff_engine.py:35-42 (the watched paths that exist in Payloads)
fields_to_watch == << [label |-> "Status", path |-> "overallStatus"] >>

\* A difference: None, or the entries by category: values changed, keys
\* added, keys removed, and the categories format_diff does not read (type
\* changes, list items).  The fallback fills the first category only.
NoneDiff ==
  [isNone |-> TRUE, changes |-> {}, added |-> {}, removed |-> {}, other |-> {}]
Diff(ch) ==
  [isNone |-> FALSE, changes |-> ch, added |-> {}, removed |-> {},
   other |-> {}]

Changed(old, new, f) == old[f] # new[f]

\* diff_engine.py:31: DeepDiff(old_protocol, new_protocol, ignore_order=True)
DeepDiff(old, new) ==
  Diff({ [path |-> ProtOrder[i], old |-> old[ProtOrder[i]],
          new |-> new[ProtOrder[i]]] :
         i \in { j \in 1..Len(ProtOrder) : Changed(old, new, ProtOrder[j]) } })

\* diff_engine.py:43-51
FallbackDiff(old, new) ==
  LET ch == { [path |-> fields_to_watch[i].label,
               old |-> old[fields_to_watch[i].path],
               new |-> new[fields_to_watch[i].path]] :
              i \in { j \in 1..Len(fields_to_watch) :
                         Changed(old, new, fields_to_watch[j].path) } }
  IN IF ch = {} THEN NoneDiff ELSE Diff(ch)

\* a detector that reports the status as changed whenever a snapshot is stored
compare_always_differs(file, new_data) ==
  IF file.kind # "json" THEN NoneDiff
  ELSE Diff({ [path |-> "overallStatus",
               old |-> file.val.protocolSection.overallStatus,
               new |-> new_data.protocolSection.overallStatus] })

\* a detector that compares a snapshot it cannot parse as an empty record
compare_corrupt_as_empty(file, new_data) ==
  IF ~Exists(file) THEN NoneDiff
  ELSE IF file.kind # "json"
  THEN Diff({ [path |-> "overallStatus", old |-> "",
               new |-> new_data.protocolSection.overallStatus] })
  ELSE IF HAS_DEEPDIFF
       THEN DeepDiff(file.val.protocolSection, new_data.protocolSection)
       ELSE FallbackDiff(file.val.protocolSection, new_data.protocolSection)

\* diff_engine.py:10-51
compare_snapshots(file, new_data) ==
  IF ~Exists(file) THEN NoneDiff
  ELSE IF file.kind # "json" THEN NoneDiff
  ELSE IF HAS_DEEPDIFF
       THEN DeepDiff(file.val.protocolSection, new_data.protocolSection)
       ELSE FallbackDiff(file.val.protocolSection, new_data.protocolSection)

\* Python truthiness of a diff: None and an empty diff are both falsy
Truthy(diff) ==
  /\ ~diff.isNone
  /\ \/ diff.changes # {} \/ diff.added # {}
     \/ diff.removed # {} \/ diff.other # {}

\* the lines of the description, in the order the diff lists its entries
RECURSIVE LinesOf(_, _, _)
LinesOf(order, changes, head) ==
  IF order = <<>> THEN <<>>
  ELSE LET here == { c \in changes : c.path = Head(order) }
           rest == LinesOf(Tail(order), changes, head)
       IN IF here = {} THEN rest
          ELSE LET c == CHOOSE x \in here : TRUE
               IN << <<head, c.path, c.old, c.new>> >> \o rest

WatchLabels == [i \in 1..Len(fields_to_watch) |-> fields_to_watch[i].label]

\* diff_engine.py:76-82: one line for each path of a category
RECURSIVE PathLines(_, _, _)
PathLines(order, paths, head) ==
  IF order = <<>> THEN <<>>
  ELSE (IF Head(order) \in paths THEN << <<head, Head(order)>> >> ELSE <<>>)
         \o PathLines(Tail(order), paths, head)

\* a format_diff that returns the lines it has made, even when it made none
format_diff_lines_only(diff) ==
  IF ~Truthy(diff) THEN <<>>
  ELSE IF ~HAS_DEEPDIFF THEN LinesOf(WatchLabels, diff.changes, "fallback")
  ELSE LinesOf(ProtOrder, diff.changes, "Field changed")
         \o PathLines(ProtOrder, diff.added, "New field added")
         \o PathLines(ProtOrder, diff.removed, "Field removed")

\* diff_engine.py:53-84; the text is the sequence of its lines, the empty
\* string the empty sequence
format_diff(diff) ==
  IF ~Truthy(diff) THEN <<>>
  ELSE IF ~HAS_DEEPDIFF THEN LinesOf(WatchLabels, diff.changes, "fallback")
  ELSE LET summary ==
             LinesOf(ProtOrder, diff.changes, "Field changed")
               \o PathLines(ProtOrder, diff.added, "New field added")
               \o PathLines(ProtOrder, diff.removed, "Field removed")
       IN IF summary # <<>> THEN summary
          ELSE << <<"Minor formatting updates.">> >>

\* main.py:253, 265: the marker of an initial-collection entry
INITIAL == << <<"Initial data collection">> >>


\* ------------------------------------------------------------------ nesting
\* The fallback detector on records as the registry serves them: nested
\* objects whose modules, structures and fields may be missing or may be
\* something else than an object.  A JSON value is a leaf (a string, a
\* number, a list, written as text) or an object, a set of <<key, value>>.
Leaf(x) == [t |-> "leaf", s |-> x, d |-> {}]
Obj(pairs) == [t |-> "dict", s |-> "", d |-> pairs]
EmptyObj == Obj({})

HasKey(v, key) == v.t = "dict" /\ \E p \in v.d : p[1] = key
Item(v, key) == (CHOOSE p \in v.d : p[1] = key)[2]

\* dict.get(key, {})
DictGet(v, key) == IF HasKey(v, key) THEN Item(v, key) ELSE EmptyObj

\* diff_engine.py:47-48: ov.get(key, {}) if isinstance(ov, dict) else {}
StepInto(v, key) == IF v.t = "dict" THEN DictGet(v, key) ELSE EmptyObj

\* diff_engine.py:45-48: the walk down one watched path
RECURSIVE Walk(_, _)
Walk(v, path) ==
  IF path = <<>> THEN v ELSE Walk(StepInto(v, Head(path)), Tail(path))

\* diff_engine.py:35-42
WatchedPaths ==
  << [label |-> "Status", path |-> <<"statusModule", "overallStatus">>],
     [label |-> "Phase", path |-> <<"designModule", "phases">>],
     [label |-> "Completion Date",
      path |-> <<"statusModule", "completionDateStruct", "date">>],
     [label |-> "Sponsor",
      path |-> <<"sponsorCollaboratorsModule", "leadSponsor", "name">>],
     [label |-> "Start Date",
      path |-> <<"statusModule", "startDateStruct", "date">>],
     [label |-> "Enrollment",
      path |-> <<"designModule", "enrollmentInfo", "count">>] >>

\* a fallback that watches the status only
fallback_status_only(old_protocol, new_protocol) ==
  LET ov == Walk(old_protocol, WatchedPaths[1].path)
      nv == Walk(new_protocol, WatchedPaths[1].path)
  IN IF ov = nv THEN NoneDiff
     ELSE Diff({ [label |-> "Status", old |-> ov, new |-> nv] })

\* diff_engine.py:43-51
fallback_diff(old_protocol, new_protocol) ==
  LET ch == { [label |-> WatchedPaths[i].label,
               old |-> Walk(old_protocol, WatchedPaths[i].path),
               new |-> Walk(new_protocol, WatchedPaths[i].path)] :
              i \in { j \in 1..Len(WatchedPaths) :
                         Walk(old_protocol, WatchedPaths[j].path)
                           # Walk(new_protocol, WatchedPaths[j].path) } }
  IN IF ch = {} THEN NoneDiff ELSE Diff(ch)

\* diff_engine.py:10-51 without deepdiff, on a stored file and a new record
compare_fallback(file, new_data) ==
  IF ~Exists(file) THEN NoneDiff
  ELSE IF file.kind # "json" THEN NoneDiff
  ELSE fallback_diff(DictGet(file.val, "protocolSection"),
                     DictGet(new_data, "protocolSection"))

\* the modules a protocol section may hold (None: the module is missing)
Missing == Leaf("missing")
StatusModules ==
  { Missing, Leaf("n/a"),
    Obj({ <<"overallStatus", Leaf("RECRUITING")>> }),
    Obj({ <<"overallStatus", Leaf("COMPLETED")>> }),
    Obj({ <<"overallStatus", Leaf("RECRUITING")>>,
          <<"lastUpdateSubmitDate", Leaf("2024-01-01")>> }),
    Obj({ <<"overallStatus", Leaf("RECRUITING")>>,
          <<"completionDateStruct", Obj({ <<"date", Leaf("2025-01")>> })>> }),
    Obj({ <<"overallStatus", Leaf("RECRUITING")>>,
          <<"completionDateStruct", Leaf("2025-01")>> }),
    Obj({ <<"overallStatus", Leaf("RECRUITING")>>,
          <<"completionDateStruct", EmptyObj>> }),
    Obj({ <<"startDateStruct", Obj({ <<"date", Leaf("2020-01")>> })>> }) }
DesignModules ==
  { Missing,
    Obj({ <<"phases", Leaf("[PHASE1]")>> }),
    Obj({ <<"phases", Leaf("[PHASE2]")>>,
          <<"enrollmentInfo", Obj({ <<"count", Leaf("100")>> })>> }),
    Obj({ <<"enrollmentInfo", Obj({ <<"count", Leaf("200")>> })>> }) }
SponsorModules ==
  { Missing,
    Obj({ <<"leadSponsor", Obj({ <<"name", Leaf("A")>> })>> }),
    Obj({ <<"leadSponsor", Obj({ <<"name", Leaf("B")>> })>> }) }

Protocol(sm, dm, sp) ==
  Obj({ p \in { <<"statusModule", sm>>, <<"designModule", dm>>,
                <<"sponsorCollaboratorsModule", sp>> } : p[2] # Missing })

\* the records: with a protocol section, without one, and with one that is
\* not an object
Records ==
  { Obj({ <<"protocolSection", Protocol(sm, dm, sp)>> }) :
      sm \in StatusModules, dm \in DesignModules, sp \in SponsorModules }
  \cup { Obj({ <<"otherSection", Obj({ <<"someField", Leaf("value")>> })>> }),
         Obj({ <<"protocolSection", Leaf("withheld")>> }) }

\* ------------------------------------------------------------------ ledger
Entry(t, text) == [timestamp |-> strftime(t), diff |-> text]

\* an update_history that gives up on a ledger it cannot parse
HistoryAppendReadableOnly(file, t, text) ==
  IF file.kind = "corrupt" THEN <<>>
  ELSE Append(safe_json_load(file, <<>>), Entry(t, text))

\* an update_history that appends its entry twice
HistoryAppendTwice(file, t, text) ==
  Append(Append(safe_json_load(file, <<>>), Entry(t, text)), Entry(t, text))

\* an update_history that puts its entry in front of the list
HistoryPrepend(file, t, text) ==
  <<Entry(t, text)>> \o safe_json_load(file, <<>>)

\* main.py:106-114: the list update_history is about to write back
HistoryAppend(file, t, text) ==
  Append(safe_json_load(file, <<>>), Entry(t, text))

\* the ids picked by monitor_status instead of changed_today
ChangedIdsByStatus(reports) ==
  LET flagged == SelectSeq(reports, LAMBDA r : r.monitor_status = "Changed")
  IN [i \in 1..Len(flagged) |-> flagged[i].id]

\* main.py:131
ChangedTodayIds(reports) ==
  LET flagged == SelectSeq(reports, LAMBDA r : r.changed_today)
  IN [i \in 1..Len(flagged) |-> flagged[i].id]

NoMessage == [kind |-> "", n |-> 0, ids |-> <<>>]

\* a group message that is written even when no report is flagged
TargetMessageAlways(history, reports) ==
  IF history = <<>>
  THEN [kind |-> "Initial data collection", n |-> Len(reports), ids |-> <<>>]
  ELSE [kind |-> "Changes detected", n |-> Len(ChangedTodayIds(reports)),
        ids |-> ChangedTodayIds(reports)]

\* main.py:133-137
TargetMessage(history, reports) ==
  IF history = <<>>
  THEN [kind |-> "Initial data collection", n |-> Len(reports), ids |-> <<>>]
  ELSE IF ChangedTodayIds(reports) # <<>>
  THEN [kind |-> "Changes detected", n |-> Len(ChangedTodayIds(reports)),
        ids |-> ChangedTodayIds(reports)]
  ELSE NoMessage

\* main.py:128-146: the group ledger after a call whose write succeeds
TargetHistoryAfter(file, reports, t) ==
  LET history == safe_json_load(file, <<>>)
      message == TargetMessage(history, reports)
  IN IF message # NoMessage
     THEN JsonFile(Append(history, [timestamp |-> strftime(t), event |-> message]))
     ELSE file

\* ------------------------------------------------------------------ report
NoChangesYet == [kind |-> "No changes yet", date |-> 0]
DateVal(d) == [kind |-> "date", date |-> d]

\* a lookback whose comparison is turned around
RecentChangeOutside(history, t) ==
  \E i \in 1..Len(history) :
     /\ history[i].diff # INITIAL
     /\ strptime(history[i].timestamp) < t - Window

\* a lookback that counts the initial entry as a change
RecentChangeAnyEntry(history, t) ==
  \E i \in 1..Len(history) : strptime(history[i].timestamp) > t - Window

\* main.py:263-278: some entry other than the initial one is inside the window
RecentChange(history, t) ==
  \E i \in 1..Len(history) :
     /\ history[i].diff # INITIAL
     /\ strptime(history[i].timestamp) > t - Window

\* main.py:234, 258-278
MonitorStatus(history, t) ==
  IF history # <<>> /\ RecentChange(history, t) THEN "Changed" ELSE "No Change"

\* a lookback that takes the date of the last entry other than the initial one
LastMonitoredChangeSkipsInitial(history, before) ==
  LET changes == SelectSeq(history, LAMBDA e : e.diff # INITIAL)
  IN IF changes # <<>>
     THEN DateVal(DatePart(changes[Len(changes)].timestamp))
     ELSE before

\* main.py:235, 243-246, 258-260
LastMonitoredChange(history, before) ==
  IF history # <<>> THEN DateVal(DatePart(history[Len(history)].timestamp))
  ELSE before

NoReport == [id |-> "", status |-> "", monitor_status |-> "",
             last_monitored_change |-> NoChangesYet, changed_today |-> FALSE]

\* ------------------------------------------------------------------ tasks
IdleTask ==
  [pc |-> "idle", id |-> "", grp |-> 0, site |-> "", fetchRet |-> Null,
   new_data |-> Null, diffFound |-> FALSE, diff_text |-> <<>>,
   hlocal |-> <<>>, changed_today |-> FALSE,
   last_monitored_change |-> NoChangesYet, monitor_status |-> "",
   outcome |-> "", report |-> NoReport, preSnap |-> Absent,
   preHist |-> Absent, beforeDeadline |-> FALSE, slow |-> FALSE,
   timestamp |-> 0]

Finish(t, how) == [t EXCEPT !.pc = "done", !.outcome = how]

\* a write may fail (disk full, permissions); a run of main() meets at most
\* MaxFaults such failures
CanFail == orch.pc = "test" \/ orch.faults < MaxFaults
Faulted == IF orch.pc = "test" THEN orch ELSE [orch EXCEPT !.faults = @ + 1]

\* thread k stands at step pc of process_trial; main.py:419-422: os._exit
\* stops every thread where it stands
At(k, pc) == task[k].pc = pc /\ orch.pc # "exited"

\* What the remote source may return for an id: None or a record.  Once the
\* ledger of the id holds MaxHist entries the source has stopped changing the
\* record in a way the detector reports.
FetchResults(id) ==
  {Null} \cup
  { p \in remote[id] :
      HistLen(histFile[id]) < MaxHist
        \/ ~Truthy(compare_snapshots(snapFile[id], p)) }

\* a process_trial that gives up whenever the fetch returned nothing
FallbackNever(t, file) == Finish(t, "skipped")

\* main.py:188-193: with no fetched record fall back to the stored
\* snapshot, or give up
Fallback(t, file) ==
  LET loaded == safe_json_load(file, Null)
  IN IF loaded = Null THEN Finish(t, "skipped")
     ELSE [t EXCEPT !.new_data = loaded, !.pc = "compare"]

\* main.py:219, 239-240
Compared(t, file) ==
  LET diff == compare_snapshots(file, t.new_data)
  IN IF Truthy(diff)
     THEN [t EXCEPT !.diffFound = TRUE, !.site = "diff",
                    !.diff_text = format_diff(diff), !.pc = "uh_read"]
     ELSE [t EXCEPT !.pc = "exists"]

\* main.py:187-219: the fetch returns a record or None and touches no file;
\* the thread then reads the snapshot, in the detector when a record was
\* fetched and in the fallback otherwise
Fetch(k) ==
  /\ At(k, "fetch")
  /\ \E d \in FetchResults(task[k].id) :
       LET t == [task[k] EXCEPT !.fetchRet = d, !.new_data = d]
           file == snapFile[task[k].id]
       IN task' = [task EXCEPT ![k] =
                     IF d = Null THEN Fallback(t, file) ELSE Compared(t, file)]
  /\ UNCHANGED <<call, HAS_DEEPDIFF, history_dir, snapshot_dir, now, snapFile,
                 histFile, targetHistFile, summaryFile, lastRun, lastUTH, orch, remote>>

\* main.py:219: after the fallback the detector reads the snapshot again
Compare(k) ==
  /\ At(k, "compare")
  /\ task' = [task EXCEPT ![k] = Compared(@, snapFile[task[k].id])]
  /\ UNCHANGED <<call, HAS_DEEPDIFF, history_dir, snapshot_dir, now, snapFile,
                 histFile, targetHistFile, summaryFile, lastRun, lastUTH, orch, remote>>

\* a process_trial that records an initial collection on every run without
\* a difference
ExistsCheckAlways(k) ==
  /\ At(k, "exists")
  /\ task' = [task EXCEPT ![k] =
                [@ EXCEPT !.site = "init", !.diff_text = INITIAL,
                          !.pc = "uh_read"]]
  /\ UNCHANGED <<call, HAS_DEEPDIFF, history_dir, snapshot_dir, now, snapFile,
                 histFile, targetHistFile, summaryFile, lastRun, lastUTH, orch, remote>>

\* main.py:249-253
ExistsCheck(k) ==
  /\ At(k, "exists")
  /\ task' = [task EXCEPT ![k] =
                IF ~Exists(histFile[task[k].id])
                THEN [@ EXCEPT !.site = "init", !.diff_text = INITIAL,
                               !.pc = "uh_read"]
                ELSE [@ EXCEPT !.pc = "lookback"]]
  /\ UNCHANGED <<call, HAS_DEEPDIFF, history_dir, snapshot_dir, now, snapFile,
                 histFile, targetHistFile, summaryFile, lastRun, lastUTH, orch, remote>>

\* main.py:106-114: update_history reads the ledger and appends in memory;
\* history.append raises AttributeError when what was read is not a list
UhRead(k) ==
  /\ At(k, "uh_read")
  /\ history_dir
  /\ task' = [task EXCEPT ![k] =
                IF histFile[task[k].id] = NotAList THEN Finish(@, "raised")
                ELSE [@ EXCEPT
                        !.hlocal = HistoryAppend(histFile[task[k].id], now,
                                                 task[k].diff_text),
                        !.pc = "uh_open"]]
  /\ UNCHANGED <<call, HAS_DEEPDIFF, history_dir, snapshot_dir, now, snapFile,
                 histFile, targetHistFile, summaryFile, lastRun, lastUTH, orch, remote>>

\* main.py:106: update_history takes the timestamp of the entry first
UhStamp(k) ==
  /\ At(k, "uh_read")
  /\ history_dir
  /\ task' = [task EXCEPT ![k].timestamp = now, ![k].pc = "uh_load"]
  /\ UNCHANGED <<call, HAS_DEEPDIFF, history_dir, snapshot_dir, now, snapFile,
                 histFile, targetHistFile, summaryFile, lastRun, lastUTH, orch, remote>>

\* main.py:109-114: and reads the ledger afterwards
UhLoad(k) ==
  /\ At(k, "uh_load")
  /\ task' = [task EXCEPT ![k] =
                IF histFile[task[k].id] = NotAList THEN Finish(@, "raised")
                ELSE [@ EXCEPT
                        !.hlocal = HistoryAppend(histFile[task[k].id],
                                                 task[k].timestamp,
                                                 task[k].diff_text),
                        !.pc = "uh_open"]]
  /\ UNCHANGED <<call, HAS_DEEPDIFF, history_dir, snapshot_dir, now, snapFile,
                 histFile, targetHistFile, summaryFile, lastRun, lastUTH, orch, remote>>

\* main.py:103: os.path.exists(history_dir) is false
UhExists(k) ==
  /\ At(k, "uh_read")
  /\ ~history_dir
  /\ task' = [task EXCEPT ![k].pc = "uh_makedirs"]
  /\ UNCHANGED <<call, HAS_DEEPDIFF, history_dir, snapshot_dir, now, snapFile,
                 histFile, targetHistFile, summaryFile, lastRun, lastUTH, orch, remote>>

\* main.py:104: os.makedirs(history_dir), without exist_ok, raises
\* FileExistsError when the directory has been made in the meantime
UhMakedirs(k) ==
  /\ At(k, "uh_makedirs")
  /\ history_dir' = TRUE
  /\ task' = [task EXCEPT ![k] =
                IF history_dir THEN Finish(@, "raised")
                ELSE [@ EXCEPT !.pc = "uh_read"]]
  /\ UNCHANGED <<call, HAS_DEEPDIFF, snapshot_dir, now, snapFile, histFile,
                 targetHistFile, summaryFile, lastRun, lastUTH, orch, remote>>

\* main.py:116: open(history_file, 'w') truncates the file, or fails
UhOpen(k) ==
  /\ At(k, "uh_open")
  /\ \/ /\ histFile' = [histFile EXCEPT ![task[k].id] = Corrupt]
        /\ task' = [task EXCEPT ![k].pc = "uh_dump"]
        /\ UNCHANGED orch
     \/ /\ CanFail
        /\ task' = [task EXCEPT ![k] = Finish(@, "raised")]
        /\ orch' = Faulted
        /\ UNCHANGED histFile
  /\ UNCHANGED <<call, HAS_DEEPDIFF, history_dir, snapshot_dir, now, snapFile,
                 targetHistFile, summaryFile, lastRun, lastUTH, remote>>

\* a process_trial that flags the report after every ledger append
AfterUpdateHistoryFlagsAll(t, today) ==
  [t EXCEPT !.changed_today = TRUE,
            !.last_monitored_change = DateVal(today), !.pc = "lookback"]

\* main.py:243-248 (after a difference), 253 (after the initial entry)
AfterUpdateHistory(t, today) ==
  IF t.site = "diff"
  THEN [t EXCEPT !.changed_today = TRUE,
                 !.last_monitored_change = DateVal(today), !.pc = "lookback"]
  ELSE [t EXCEPT !.pc = "lookback"]

\* main.py:117: json.dump writes the list, or fails and leaves the file cut
UhDump(k) ==
  /\ At(k, "uh_dump")
  /\ \/ /\ histFile' = [histFile EXCEPT ![task[k].id] = JsonFile(task[k].hlocal)]
        /\ task' = [task EXCEPT ![k] =
                      AfterUpdateHistory(@, DatePart(strftime(now)))]
        /\ UNCHANGED orch
     \/ /\ CanFail
        /\ task' = [task EXCEPT ![k] = Finish(@, "raised")]
        /\ orch' = Faulted
        /\ UNCHANGED histFile
  /\ UNCHANGED <<call, HAS_DEEPDIFF, history_dir, snapshot_dir, now, snapFile,
                 targetHistFile, summaryFile, lastRun, lastUTH, remote>>

\* main.py:255-278; history[-1] (main.py:260) raises KeyError when what was
\* read is an object
Lookback(k) ==
  /\ At(k, "lookback")
  /\ LET history == safe_json_load(histFile[task[k].id], <<>>)
     IN task' = [task EXCEPT ![k] =
                   IF histFile[task[k].id] = NotAList THEN Finish(@, "raised")
                   ELSE [@ EXCEPT
                           !.last_monitored_change =
                               LastMonitoredChange(history, @),
                           !.monitor_status = MonitorStatus(history, now),
                           !.pc = "ss_open"]]
  /\ UNCHANGED <<call, HAS_DEEPDIFF, history_dir, snapshot_dir, now, snapFile,
                 histFile, targetHistFile, summaryFile, lastRun, lastUTH, orch, remote>>

\* a save_snapshot that opens the files of every record
SsOpenEveryFile(k) ==
  /\ At(k, "ss_open")
  /\ snapFile' = [i \in Ids |-> Corrupt]
  /\ task' = [task EXCEPT ![k].pc = "ss_dump"]
  /\ UNCHANGED <<call, HAS_DEEPDIFF, history_dir, snapshot_dir, now, histFile,
                 targetHistFile, summaryFile, lastRun, lastUTH, orch, remote>>

\* crawler.py:95-100: the directory is made if it is missing, then
\* open(filepath, 'w') truncates the snapshot; makedirs or open may fail
SsOpen(k) ==
  /\ At(k, "ss_open")
  /\ \/ /\ snapshot_dir' = TRUE
        /\ snapFile' = [snapFile EXCEPT ![task[k].id] = Corrupt]
        /\ task' = [task EXCEPT ![k].pc = "ss_dump"]
        /\ UNCHANGED orch
     \/ /\ CanFail
        /\ snapshot_dir' \in {snapshot_dir, TRUE}
        /\ task' = [task EXCEPT ![k] = Finish(@, "raised")]
        /\ orch' = Faulted
        /\ UNCHANGED snapFile
  /\ UNCHANGED <<call, HAS_DEEPDIFF, history_dir, now, histFile,
                 targetHistFile, summaryFile, lastRun, lastUTH, remote>>

\* main.py:221-237, 281: the report process_trial returns
ReportOf(t) ==
  [id |-> t.id, status |-> t.new_data.protocolSection.overallStatus,
   monitor_status |-> t.monitor_status,
   last_monitored_change |-> t.last_monitored_change,
   changed_today |-> t.changed_today]

\* variant: the snapshot is rewritten only when a difference was found
SsDumpOnlyOnChange(k) ==
  /\ At(k, "ss_dump")
  /\ snapFile' = [snapFile EXCEPT ![task[k].id] =
                    IF task[k].diffFound THEN JsonFile(task[k].new_data)
                    ELSE task[k].preSnap]
  /\ task' = [task EXCEPT ![k] =
                [Finish(@, "report") EXCEPT !.report = ReportOf(task[k])]]
  /\ UNCHANGED <<call, HAS_DEEPDIFF, history_dir, snapshot_dir, now, histFile,
                 targetHistFile, summaryFile, lastRun, lastUTH, orch, remote>>

\* variant: a snapshot that already holds a payload is put back as it was
SsDumpKeepsFirst(k) ==
  /\ At(k, "ss_dump")
  /\ snapFile' = [snapFile EXCEPT ![task[k].id] =
                    IF task[k].preSnap.kind = "json" THEN task[k].preSnap
                    ELSE JsonFile(task[k].new_data)]
  /\ task' = [task EXCEPT ![k] =
                [Finish(@, "report") EXCEPT !.report = ReportOf(task[k])]]
  /\ UNCHANGED <<call, HAS_DEEPDIFF, history_dir, snapshot_dir, now, histFile,
                 targetHistFile, summaryFile, lastRun, lastUTH, orch, remote>>

\* a process_trial that puts its report in the list of the group itself
SsDumpAppendsReport(k) ==
  /\ At(k, "ss_dump")
  /\ snapFile' = [snapFile EXCEPT ![task[k].id] = JsonFile(task[k].new_data)]
  /\ task' = [task EXCEPT ![k] =
                [Finish(@, "report") EXCEPT !.report = ReportOf(task[k])]]
  /\ orch' = [orch EXCEPT !.target_reports = Append(@, ReportOf(task[k]))]
  /\ UNCHANGED <<call, HAS_DEEPDIFF, history_dir, snapshot_dir, now, histFile,
                 targetHistFile, summaryFile, lastRun, lastUTH, remote>>

\* crawler.py:101, main.py:281
SsDump(k) ==
  /\ At(k, "ss_dump")
  /\ \/ /\ snapFile' = [snapFile EXCEPT ![task[k].id] = JsonFile(task[k].new_data)]
        /\ task' = [task EXCEPT ![k] =
                      [Finish(@, "report") EXCEPT !.report = ReportOf(task[k])]]
        /\ UNCHANGED orch
     \/ /\ CanFail
        /\ task' = [task EXCEPT ![k] = Finish(@, "raised")]
        /\ orch' = Faulted
        /\ UNCHANGED snapFile
  /\ UNCHANGED <<call, HAS_DEEPDIFF, history_dir, snapshot_dir, now, histFile,
                 targetHistFile, summaryFile, lastRun, lastUTH, remote>>

\* one step of a thread inside process_trial
TaskStep(k) ==
  \/ Fetch(k) \/ Compare(k) \/ ExistsCheck(k)
  \/ UhRead(k) \/ UhOpen(k) \/ UhDump(k) \/ Lookback(k)
  \/ SsOpen(k) \/ SsDump(k)

\* ------------------------------------------------------------------ clock
\* The moments at which calls are made: at the start, and just inside and
\* just outside the 30-day window counted from the start.
ClockValues == {0, Window - 1, Window + 1}

\* Time passes between calls.
Tick ==
  /\ \A k \in TaskIds : task[k].pc = "idle"
  /\ \E t \in ClockValues :
       /\ t > now
       /\ now' = t
  /\ UNCHANGED <<call, HAS_DEEPDIFF, history_dir, snapshot_dir, snapFile,
                 histFile, targetHistFile, summaryFile, task, lastRun, lastUTH, orch,
                 remote>>

\* ------------------------------------------------------------------ calls
\* The functions called one at a time from a single thread, as the tests in
\* src/tests call them.
NoRun == [valid |-> FALSE, fetch |-> Null, snap |-> Absent, hist |-> Absent]

NoUTH == [called |-> FALSE, target |-> "", pre |-> Absent, reports |-> <<>>,
          post |-> Absent, wrote |-> FALSE, raised |-> FALSE]

\* main.py:182-186: process_trial(trial, target_name) is entered
CallProcessTrial(k, id) ==
  /\ task[k].pc = "idle"
  /\ task' = [task EXCEPT ![k] =
                [IdleTask EXCEPT !.pc = "fetch", !.id = id,
                                 !.preSnap = snapFile[id],
                                 !.preHist = histFile[id]]]
  /\ UNCHANGED <<call, HAS_DEEPDIFF, history_dir, snapshot_dir, now, snapFile,
                 histFile, targetHistFile, summaryFile, lastRun, lastUTH, orch, remote>>

\* the caller takes the result; the thread is free again
Return(k) ==
  /\ task[k].pc = "done"
  /\ lastRun' = [lastRun EXCEPT ![task[k].id] =
                   IF task[k].outcome = "report"
                   THEN [valid |-> TRUE, fetch |-> task[k].fetchRet,
                         snap |-> snapFile[task[k].id],
                         hist |-> histFile[task[k].id]]
                   ELSE NoRun]
  /\ task' = [task EXCEPT ![k] = IdleTask]
  /\ UNCHANGED <<call, HAS_DEEPDIFF, history_dir, snapshot_dir, now, snapFile,
                 histFile, targetHistFile, summaryFile, lastUTH, orch, remote>>

\* the reports a caller may pass to update_target_history
ReportFor(id, flagged, status) ==
  [id |-> id, status |-> "RECRUITING", monitor_status |-> status,
   last_monitored_change |-> NoChangesYet, changed_today |-> flagged]

ReportChoices(id) ==
  { ReportFor(id, FALSE, "No Change"), ReportFor(id, FALSE, "Changed"),
    ReportFor(id, TRUE, "Changed") }

ReportLists ==
  {<<>>} \cup { <<r>> : r \in ReportChoices("NCT01") \cup ReportChoices("NCT02") }
         \cup { <<r1, r2>> : r1 \in ReportChoices("NCT01"),
                              r2 \in ReportChoices("NCT02") }

\* main.py:120-147: update_target_history(target_name, current_reports).
\* The write at 145-146 succeeds, fails before truncating, or fails after.
update_target_history(name, reports) ==
  LET after == TargetHistoryAfter(targetHistFile[name], reports, now)
      wrote == TargetMessage(safe_json_load(targetHistFile[name], <<>>),
                             reports) # NoMessage
  IN \E fail \in IF wrote THEN {"no", "open", "dump"} ELSE {"no"} :
       LET post == IF fail = "no" THEN after
                   ELSE IF fail = "open" THEN targetHistFile[name]
                   ELSE Corrupt
       IN /\ targetHistFile' = [targetHistFile EXCEPT ![name] = post]
          /\ lastUTH' = IF orch.pc # "test" THEN lastUTH
                        ELSE [called |-> TRUE, target |-> name,
                              pre |-> targetHistFile[name],
                              reports |-> reports, post |-> post,
                              wrote |-> wrote, raised |-> fail # "no"]

CallUpdateTargetHistory(name) ==
  /\ \A k \in TaskIds : task[k].pc = "idle"
  /\ HistLen(targetHistFile[name]) < MaxHist
  /\ \E reports \in ReportLists : update_target_history(name, reports)
  /\ UNCHANGED <<call, HAS_DEEPDIFF, summaryFile, history_dir, snapshot_dir, now, snapFile,
                 histFile, task, lastRun, orch, remote>>

\* the locals of main() (main.py:343-357) and of as_completed; uth_calls
\* counts the calls of update_target_history for the group at hand
IdleOrch ==
  [pc |-> "submit", gi |-> 1, target_reports |-> <<>>, pending |-> {},
   waiter |-> <<>>, batch |-> <<>>, expired |-> FALSE, timedOut |-> FALSE,
   target_summaries |-> <<>>, faults |-> 0, uth_calls |-> 0,
   completed |-> <<>>]

SnapInit == {Absent, Corrupt} \cup { JsonFile(p) : p \in Payloads }
HistInit == {Absent, Corrupt, JsonFile(<< Entry(0, INITIAL) >>)}
TargetHistInit ==
  {Absent, Corrupt,
   JsonFile(<< [timestamp |-> strftime(0),
                event |-> [kind |-> "Initial data collection", n |-> 2,
                           ids |-> <<>>]] >>)}

InitCalls ==
  /\ HAS_DEEPDIFF \in BOOLEAN
  /\ snapshot_dir = TRUE
  /\ history_dir = TRUE
  /\ call = NoCall
  /\ now = 0
  /\ \E s \in SnapInit : snapFile = [i \in Ids |-> IF i = "NCT01" THEN s ELSE Absent]
  /\ \E h \in HistInit : histFile = [i \in Ids |-> IF i = "NCT01" THEN h ELSE Absent]
  /\ targetHistFile = [n \in TargetNames |-> Absent]
  /\ summaryFile = [n \in TargetNames |-> Absent]
  /\ task = [k \in TaskIds |-> IdleTask]
  /\ lastRun = [i \in Ids |-> NoRun]
  /\ lastUTH = NoUTH
  /\ orch = [IdleOrch EXCEPT !.pc = "test"]
  /\ remote = [i \in Ids |-> Payloads]

InitTarget ==
  /\ HAS_DEEPDIFF \in BOOLEAN
  /\ snapshot_dir = TRUE
  /\ history_dir = TRUE
  /\ call = NoCall
  /\ now = 0
  /\ snapFile = [i \in Ids |-> Absent]
  /\ histFile = [i \in Ids |-> Absent]
  /\ \E h \in TargetHistInit :
       targetHistFile = [n \in TargetNames |-> IF n = "tigit" THEN h ELSE Absent]
  /\ summaryFile = [n \in TargetNames |-> Absent]
  /\ task = [k \in TaskIds |-> IdleTask]
  /\ lastRun = [i \in Ids |-> NoRun]
  /\ lastUTH = NoUTH
  /\ orch = [IdleOrch EXCEPT !.pc = "test"]
  /\ remote = [i \in Ids |-> Payloads]

NextCalls ==
  \/ CallProcessTrial(1, "NCT01")
  \/ TaskStep(1)
  \/ Return(1)
  \/ Tick

\* process_trial and update_history called in sequence from one thread
SpecCalls == InitCalls /\ [][NextCalls]_vars

\* as InitCalls, with a ledger that may also hold JSON of another shape
InitShape ==
  /\ HAS_DEEPDIFF = TRUE
  /\ snapshot_dir = TRUE
  /\ history_dir = TRUE
  /\ call = NoCall
  /\ now = 0
  /\ \E s \in SnapInit :
       snapFile = [i \in Ids |-> IF i = "NCT01" THEN s ELSE Absent]
  /\ \E h \in HistInit \cup {NotAList} :
       histFile = [i \in Ids |-> IF i = "NCT01" THEN h ELSE Absent]
  /\ targetHistFile = [n \in TargetNames |-> Absent]
  /\ summaryFile = [n \in TargetNames |-> Absent]
  /\ task = [k \in TaskIds |-> IdleTask]
  /\ lastRun = [i \in Ids |-> NoRun]
  /\ lastUTH = NoUTH
  /\ orch = [IdleOrch EXCEPT !.pc = "test"]
  /\ remote = [i \in Ids |-> Payloads]

\* process_trial called in sequence on a ledger of any shape
SpecShape == InitShape /\ [][NextCalls]_vars

NextTarget == \E name \in TargetNames : CallUpdateTargetHistory(name)

\* update_target_history called in sequence from one thread
SpecTarget == InitTarget /\ [][NextTarget]_vars

\* ------------------------------------------------------------------ store
\* crawler.py:91-93: save_snapshot(trial_id, data, snapshot_dir) is entered
CallSaveSnapshot(k, id, data) ==
  /\ task[k].pc = "idle"
  /\ task' = [task EXCEPT ![k] =
                [IdleTask EXCEPT !.pc = "ss_open", !.id = id,
                                 !.new_data = data,
                                 !.preSnap = snapFile[id],
                                 !.preHist = histFile[id]]]
  /\ UNCHANGED <<call, HAS_DEEPDIFF, history_dir, snapshot_dir, now, snapFile,
                 histFile, targetHistFile, summaryFile, lastRun, lastUTH, orch, remote>>

\* nothing is stored yet and the directory is missing, as in
\* test_creates_directory_if_missing (test_crawler.py:30-35)
InitStore ==
  /\ HAS_DEEPDIFF = TRUE
  /\ snapshot_dir = FALSE
  /\ history_dir = TRUE
  /\ call = NoCall
  /\ now = 0
  /\ snapFile = [i \in Ids |-> Absent]
  /\ histFile = [i \in Ids |-> Absent]
  /\ targetHistFile = [n \in TargetNames |-> Absent]
  /\ summaryFile = [n \in TargetNames |-> Absent]
  /\ task = [k \in TaskIds |-> IdleTask]
  /\ lastRun = [i \in Ids |-> NoRun]
  /\ lastUTH = NoUTH
  /\ orch = [IdleOrch EXCEPT !.pc = "test"]
  /\ remote = [i \in Ids |-> Payloads]

NextStore ==
  \/ \E id \in Ids : \E data \in Payloads : CallSaveSnapshot(1, id, data)
  \/ SsOpen(1)
  \/ SsDump(1)
  \/ Return(1)

\* save_snapshot called in sequence from one thread
SpecStore == InitStore /\ [][NextStore]_vars

\* ------------------------------------------------------------------ fallback
\* compare_snapshots is called on a stored record and a new one
CallCompareFallback ==
  /\ call = NoCall
  /\ \E old \in Records : \E new \in Records :
       call' = [fn |-> "compare_snapshots", old |-> old, new |-> new,
                ret |-> compare_fallback(JsonFile(old), new)]
  /\ UNCHANGED <<HAS_DEEPDIFF, history_dir, now, snapFile, snapshot_dir,
                 histFile, targetHistFile, summaryFile, task, lastRun, lastUTH, orch,
                 remote>>

\* deepdiff is not installed (diff_engine.py:7-8)
InitFallback ==
  /\ HAS_DEEPDIFF = FALSE
  /\ snapshot_dir = TRUE
  /\ history_dir = TRUE
  /\ call = NoCall
  /\ now = 0
  /\ snapFile = [i \in Ids |-> Absent]
  /\ histFile = [i \in Ids |-> Absent]
  /\ targetHistFile = [n \in TargetNames |-> Absent]
  /\ summaryFile = [n \in TargetNames |-> Absent]
  /\ task = [k \in TaskIds |-> IdleTask]
  /\ lastRun = [i \in Ids |-> NoRun]
  /\ lastUTH = NoUTH
  /\ orch = [IdleOrch EXCEPT !.pc = "test"]
  /\ remote = [i \in Ids |-> Payloads]

NextFallback == CallCompareFallback

\* compare_snapshots alone, in fallback mode
SpecFallback == InitFallback /\ [][NextFallback]_vars

\* ------------------------------------------------------------------ format
\* the entries a difference may hold: at most one per path in a category
ChangeSets ==
  { ch \in SUBSET { [path |-> "overallStatus", old |-> "RECRUITING",
                     new |-> "COMPLETED"],
                    [path |-> "overallStatus", old |-> "COMPLETED",
                     new |-> "RECRUITING"],
                    [path |-> "briefSummary", old |-> "b1", new |-> "b2"] } :
      \A c, d \in ch : c.path = d.path => c = d }

\* what deepdiff may return: an object with any of the categories, or empty
DeepDiffs ==
  { [isNone |-> FALSE, changes |-> ch, added |-> a, removed |-> r,
     other |-> o] :
      ch \in ChangeSets, a \in SUBSET {"overallStatus", "briefSummary"},
      r \in SUBSET {"overallStatus", "briefSummary"},
      o \in SUBSET {"type_changes"} }

\* what the fallback may return, and the {} of test_empty_diff
FallbackDiffs ==
  { Diff(ch) : ch \in { c \in ChangeSets : \A e \in c : e.path = "overallStatus" } }

\* format_diff is called on None or on a difference of the mode in force
CallFormatDiff ==
  /\ call = NoCall
  /\ \E diff \in {NoneDiff} \cup
                  (IF HAS_DEEPDIFF THEN DeepDiffs
                   ELSE { [d EXCEPT !.changes =
                             { [path |-> "Status", old |-> e.old, new |-> e.new] :
                               e \in d.changes }] : d \in FallbackDiffs }) :
       call' = [fn |-> "format_diff", diff |-> diff, ret |-> format_diff(diff)]
  /\ UNCHANGED <<HAS_DEEPDIFF, history_dir, now, snapFile, snapshot_dir,
                 histFile, targetHistFile, summaryFile, task, lastRun, lastUTH, orch,
                 remote>>

InitFormat ==
  /\ HAS_DEEPDIFF \in BOOLEAN
  /\ snapshot_dir = TRUE
  /\ history_dir = TRUE
  /\ call = NoCall
  /\ now = 0
  /\ snapFile = [i \in Ids |-> Absent]
  /\ histFile = [i \in Ids |-> Absent]
  /\ targetHistFile = [n \in TargetNames |-> Absent]
  /\ summaryFile = [n \in TargetNames |-> Absent]
  /\ task = [k \in TaskIds |-> IdleTask]
  /\ lastRun = [i \in Ids |-> NoRun]
  /\ lastUTH = NoUTH
  /\ orch = [IdleOrch EXCEPT !.pc = "test"]
  /\ remote = [i \in Ids |-> Payloads]

NextFormat == CallFormatDiff

\* format_diff alone, in either mode
SpecFormat == InitFormat /\ [][NextFormat]_vars

\* ------------------------------------------------------------------ reader
\* the text of a file, one character per element: the brackets and the comma
\* of a JSON array, two string literals, and a byte that is not UTF-8
MaxText == 5
Chars == {"[", "]", ",", "a", "b", "x"}
Literals == {"a", "b"}
Texts == UNION { [1..n -> Chars] : n \in 0..MaxText }

\* Python values: None, a list of strings, the default-not-given marker
None == [t |-> "none", v |-> <<>>]
List(items) == [t |-> "list", v |-> items]
_SENTINEL == [t |-> "sentinel", v |-> <<>>]
Ok(value) == [exc |-> "", val |-> value]
Raise(name) == [exc |-> name, val |-> None]

\* json.dump of a list of strings
RECURSIVE Joined(_)
Joined(items) ==
  IF items = <<>> THEN <<>>
  ELSE IF Len(items) = 1 THEN << items[1] >>
  ELSE << items[1], "," >> \o Joined(Tail(items))

dumps(value) == << "[" >> \o Joined(value.v) \o << "]" >>

\* the decoder after the opening bracket: a literal, then the closing bracket
\* at the end of the text or a comma and the rest
RECURSIVE ParseItems(_, _, _)
ParseItems(text, i, acc) ==
  IF i + 1 > Len(text) \/ text[i] \notin Literals
  THEN Raise("JSONDecodeError")
  ELSE IF text[i + 1] = "]"
       THEN IF i + 1 = Len(text) THEN Ok(List(Append(acc, text[i])))
            ELSE Raise("JSONDecodeError")
       ELSE IF text[i + 1] = ","
            THEN ParseItems(text, i + 2, Append(acc, text[i]))
            ELSE Raise("JSONDecodeError")

\* main.py:95-96: open(file_path, 'r', encoding='utf-8') and json.load(f)
json_load(text) ==
  IF \E i \in 1..Len(text) : text[i] = "x" THEN Raise("UnicodeDecodeError")
  ELSE IF Len(text) < 2 \/ text[1] # "[" THEN Raise("JSONDecodeError")
  ELSE IF text[2] = "]"
       THEN IF Len(text) = 2 THEN Ok(List(<<>>)) ELSE Raise("JSONDecodeError")
       ELSE ParseItems(text, 2, <<>>)

\* a handler for decoding errors alone
CaughtDecodeOnly(exc) == exc = "JSONDecodeError"

\* main.py:97: except (json.JSONDecodeError, Exception)
Caught(exc) == exc \in {"JSONDecodeError", "UnicodeDecodeError"}

\* main.py:87-98, on the text of the file
safe_json_load_text(file, default) ==
  LET d == IF default = _SENTINEL THEN List(<<>>) ELSE default
  IN IF ~file.exists THEN [raised |-> FALSE, val |-> d]
     ELSE LET r == json_load(file.text)
          IN IF r.exc = "" THEN [raised |-> FALSE, val |-> r.val]
             ELSE IF Caught(r.exc) THEN [raised |-> FALSE, val |-> d]
             ELSE [raised |-> TRUE, val |-> None]

\* the file as the rest of the model sees it
KindOf(file) ==
  IF ~file.exists THEN Absent
  ELSE LET r == json_load(file.text)
       IN IF r.exc = "" THEN JsonFile(r.val) ELSE Corrupt

CallSafeJsonLoad ==
  /\ call = NoCall
  /\ \E file \in {[exists |-> FALSE, text |-> <<>>]}
                     \cup {[exists |-> TRUE, text |-> x] : x \in Texts},
        default \in {_SENTINEL, None, List(<< "b" >>)} :
       call' = [fn |-> "safe_json_load", file |-> file, default |-> default,
                ret |-> safe_json_load_text(file, default)]
  /\ UNCHANGED <<HAS_DEEPDIFF, history_dir, now, snapFile, snapshot_dir,
                 histFile, targetHistFile, summaryFile, task, lastRun, lastUTH, orch,
                 remote>>

NextReader == CallSafeJsonLoad

\* safe_json_load alone, on every short text
SpecReader == InitFormat /\ [][NextReader]_vars

\* ------------------------------------------------------------------ main
Running(k) == task[k].pc \notin {"idle", "queued", "cancelled", "finished"}

\* process_trial is entered by a pool thread (main.py:182-186)
Started(k) ==
  [IdleTask EXCEPT !.pc = "fetch", !.id = TrialOf(k), !.grp = GroupOf(k),
                   !.preSnap = snapFile[TrialOf(k)],
                   !.preHist = histFile[TrialOf(k)]]

Queued(k) ==
  [IdleTask EXCEPT !.pc = "queued", !.id = TrialOf(k), !.grp = GroupOf(k)]

\* main.py:356-364: a new executor; every record of the group is submitted,
\* the first MAX_WORKERS get a thread, the others wait in the queue
Submit ==
  /\ orch.pc = "submit"
  /\ task' = [k \in TaskIds |->
                IF k \in TasksOf(orch.gi)
                THEN IF k - Base(orch.gi) <= MAX_WORKERS THEN Started(k)
                     ELSE Queued(k)
                ELSE IF task[k].pc \in {"finished", "cancelled"}
                THEN [IdleTask EXCEPT !.pc = task[k].pc, !.id = task[k].id,
                                      !.grp = task[k].grp]
                ELSE task[k]]
  /\ orch' = [orch EXCEPT !.pc = "ac_start", !.target_reports = <<>>,
                          !.pending = {}, !.waiter = <<>>, !.batch = <<>>,
                          !.expired = FALSE, !.timedOut = FALSE]
  /\ UNCHANGED <<call, HAS_DEEPDIFF, history_dir, snapshot_dir, now, snapFile,
                 histFile, targetHistFile, summaryFile, lastRun, lastUTH, remote>>

\* a pool that starts a queued record whether or not a thread is free
StartQueuedAtOnce(k) ==
  /\ orch.pc # "exited"
  /\ task[k].pc = "queued"
  /\ task' = [task EXCEPT ![k] = Started(k)]
  /\ UNCHANGED <<call, HAS_DEEPDIFF, history_dir, snapshot_dir, now, snapFile,
                 histFile, targetHistFile, summaryFile, lastRun, lastUTH, orch, remote>>

\* a free pool thread takes the next queued record
StartQueued(k) ==
  /\ orch.pc # "exited"
  /\ task[k].pc = "queued"
  /\ \A j \in TasksOf(GroupOf(k)) : j < k => task[j].pc # "queued"
  /\ Cardinality({ j \in TasksOf(GroupOf(k)) : Running(j) }) < MAX_WORKERS
  /\ task' = [task EXCEPT ![k] = Started(k)]
  /\ UNCHANGED <<call, HAS_DEEPDIFF, history_dir, snapshot_dir, now, snapFile,
                 histFile, targetHistFile, summaryFile, lastRun, lastUTH, orch, remote>>

InLoop == orch.pc \in {"ac_check", "ac_wait", "body"}

\* the pool thread stores the result or the exception in the future and
\* tells the waiter of as_completed, if one is installed on the future
SetResult(k) ==
  /\ orch.pc \notin {"exited", "test"}
  /\ task[k].pc = "done"
  /\ task' = [task EXCEPT ![k] =
                [IdleTask EXCEPT !.pc = "finished", !.id = task[k].id,
                                 !.grp = task[k].grp,
                                 !.fetchRet = task[k].fetchRet,
                                 !.diffFound = task[k].diffFound,
                                 !.outcome = task[k].outcome,
                                 !.report = task[k].report,
                                 !.slow = task[k].slow,
                                 !.beforeDeadline =
                                    /\ orch.gi = task[k].grp
                                    /\ (InLoop \/ orch.pc = "ac_start")
                                    /\ ~orch.expired]]
  /\ orch' = IF orch.gi = task[k].grp /\ InLoop /\ k \in orch.pending
             THEN [orch EXCEPT !.waiter = Append(@, k),
                               !.completed = Append(@, k)]
             ELSE IF orch.gi = task[k].grp /\ (InLoop \/ orch.pc = "ac_start")
             THEN [orch EXCEPT !.completed = Append(@, k)]
             ELSE orch
  /\ UNCHANGED <<call, HAS_DEEPDIFF, history_dir, snapshot_dir, now, snapFile,
                 histFile, targetHistFile, summaryFile, lastRun, lastUTH, remote>>

\* every order in which a set can be listed
Orders(S) ==
  { q \in [1..Cardinality(S) -> S] :
      \A i, j \in 1..Cardinality(S) : i # j => q[i] # q[j] }

\* main.py:367: as_completed(future_to_trial, timeout=TARGET_TIMEOUT) starts:
\* the futures already finished are handed out first, in no particular order
AcStart ==
  /\ orch.pc = "ac_start"
  /\ LET finished == { k \in TasksOf(orch.gi) : task[k].pc = "finished" }
     IN \E q \in Orders(finished) :
          orch' = [orch EXCEPT !.batch = q,
                               !.pending = TasksOf(orch.gi),
                               !.pc = IF q = <<>> THEN "ac_check" ELSE "body"]
  /\ UNCHANGED <<call, HAS_DEEPDIFF, history_dir, snapshot_dir, now, snapFile,
                 histFile, targetHistFile, summaryFile, task, lastRun, lastUTH, remote>>

\* TARGET_TIMEOUT (main.py:326), counted from the start of as_completed,
\* runs out while the group is being collected
ExpireDeadline ==
  /\ InLoop
  /\ ~orch.expired
  /\ orch' = [orch EXCEPT !.expired = TRUE]
  /\ UNCHANGED <<call, HAS_DEEPDIFF, history_dir, snapshot_dir, now, snapFile,
                 histFile, targetHistFile, summaryFile, task, lastRun, lastUTH, remote>>

\* main.py:367, 385: as_completed is asked for the next future: the loop ends
\* when none is pending, TimeoutError is raised when the deadline has passed
AcCheck ==
  /\ orch.pc = "ac_check"
  /\ orch' = IF orch.pending = {} THEN [orch EXCEPT !.pc = "shutdown"]
             ELSE IF orch.expired
             THEN [orch EXCEPT !.pc = "shutdown", !.timedOut = TRUE]
             ELSE [orch EXCEPT !.pc = "ac_wait"]
  /\ UNCHANGED <<call, HAS_DEEPDIFF, history_dir, snapshot_dir, now, snapFile,
                 histFile, targetHistFile, summaryFile, task, lastRun, lastUTH, remote>>

\* an as_completed without a timeout
AcWaitNoDeadline ==
  /\ orch.pc = "ac_wait"
  /\ orch.waiter # <<>>
  /\ orch' = [orch EXCEPT !.batch = orch.waiter, !.waiter = <<>>,
                          !.pc = "body"]
  /\ UNCHANGED <<call, HAS_DEEPDIFF, history_dir, snapshot_dir, now, snapFile,
                 histFile, targetHistFile, summaryFile, task, lastRun, lastUTH, remote>>

\* as_completed waits until a future finishes or the deadline passes, then
\* takes the futures finished meanwhile, in the order they finished
AcWait ==
  /\ orch.pc = "ac_wait"
  /\ orch.waiter # <<>> \/ orch.expired
  /\ orch' = [orch EXCEPT !.batch = orch.waiter, !.waiter = <<>>,
                          !.pc = IF orch.waiter = <<>> THEN "ac_check"
                                 ELSE "body"]
  /\ UNCHANGED <<call, HAS_DEEPDIFF, history_dir, snapshot_dir, now, snapFile,
                 histFile, targetHistFile, summaryFile, task, lastRun, lastUTH, remote>>

\* a loop body without the test "if report"
BodyKeepsAll ==
  /\ orch.pc = "body"
  /\ LET k == Head(orch.batch)
     IN orch' = [orch EXCEPT
                   !.batch = Tail(@),
                   !.pending = @ \ {k},
                   !.target_reports = Append(@, task[k].report),
                   !.pc = IF Tail(orch.batch) = <<>> THEN "ac_check"
                          ELSE "body"]
  /\ UNCHANGED <<call, HAS_DEEPDIFF, history_dir, snapshot_dir, now, snapFile,
                 histFile, targetHistFile, summaryFile, task, lastRun, lastUTH, remote>>

\* main.py:368-384: the loop body for the next future handed out.
\* future.result(timeout=PER_TRIAL_TIMEOUT) returns at once when the future
\* is finished and raises TimeoutError (377-379) when it is not; a report is
\* kept, (None, None) and an exception leave the lists alone
Body ==
  /\ orch.pc = "body"
  /\ LET k == Head(orch.batch)
     IN orch' = [orch EXCEPT
                   !.batch = Tail(@),
                   !.pending = @ \ {k},
                   !.target_reports =
                       IF task[k].pc = "finished" /\ task[k].outcome = "report"
                       THEN Append(@, task[k].report) ELSE @,
                   !.pc = IF Tail(orch.batch) = <<>> THEN "ac_check"
                          ELSE "body"]
  /\ UNCHANGED <<call, HAS_DEEPDIFF, history_dir, snapshot_dir, now, snapFile,
                 histFile, targetHistFile, summaryFile, task, lastRun, lastUTH, remote>>

\* main.py:388-390: shutdown(wait=False, cancel_futures=True) cancels what is
\* still queued and does not wait for the threads
Shutdown ==
  /\ orch.pc = "shutdown"
  /\ task' = [k \in TaskIds |->
                IF k \in TasksOf(orch.gi) /\ task[k].pc = "queued"
                THEN [task[k] EXCEPT !.pc = "cancelled"] ELSE task[k]]
  /\ orch' = [orch EXCEPT !.pc = "save", !.waiter = <<>>,
                          !.completed = <<>>]
  /\ UNCHANGED <<call, HAS_DEEPDIFF, history_dir, snapshot_dir, now, snapFile,
                 histFile, targetHistFile, summaryFile, lastRun, lastUTH, remote>>

\* main.py:392-398: with no report nothing is saved; save_target_data
\* (main.py:284-293) may fail before it opens status_summary.json, while it
\* dumps the reports or after the file is written, which skips
\* update_target_history; the failure of update_target_history is caught too
SaveTarget ==
  /\ orch.pc = "save"
  /\ LET name == TARGETS[orch.gi].name
         written == JsonFile(orch.target_reports)
     IN \/ /\ orch.target_reports = <<>>
           /\ orch' = [orch EXCEPT !.pc = "summary"]
           /\ UNCHANGED <<targetHistFile, summaryFile, lastUTH>>
        \/ /\ orch.target_reports # <<>>
           /\ \E post \in {summaryFile[name], Corrupt, written} :
                summaryFile' = [summaryFile EXCEPT ![name] = post]
           /\ orch' = [orch EXCEPT !.pc = "summary"]
           /\ UNCHANGED <<targetHistFile, lastUTH>>
        \/ /\ orch.target_reports # <<>>
           /\ summaryFile' = [summaryFile EXCEPT ![name] = written]
           /\ update_target_history(name, orch.target_reports)
           /\ orch' = [orch EXCEPT !.pc = "summary", !.uth_calls = @ + 1]
  /\ UNCHANGED <<call, HAS_DEEPDIFF, history_dir, snapshot_dir, now, snapFile,
                 histFile, task, lastRun, remote>>

\* a summary that counts every report of the group as changed
TargetSummaryCountsAll(g, reports) ==
  [name |-> TARGETS[g].name, trial_count |-> GroupSize(g),
   changed_count |-> Len(reports)]

\* main.py:401-406
TargetSummary(g, reports) ==
  [name |-> TARGETS[g].name, trial_count |-> GroupSize(g),
   changed_count |->
     Len(SelectSeq(reports, LAMBDA r : r.monitor_status = "Changed"))]

\* main.py:400-410, 350: the summary is appended and written, then the next
\* group; a failing write of targets_summary.json ends main()
Summarize ==
  /\ orch.pc = "summary"
  /\ \/ orch' = [orch EXCEPT
                   !.target_summaries =
                       Append(@, TargetSummary(orch.gi, orch.target_reports)),
                   !.gi = IF orch.gi < Len(TARGETS) THEN @ + 1 ELSE @,
                   !.uth_calls = 0,
                   !.pc = IF orch.gi < Len(TARGETS) THEN "submit" ELSE "pages"]
     \/ orch' = [orch EXCEPT
                   !.target_summaries =
                       Append(@, TargetSummary(orch.gi, orch.target_reports)),
                   !.pc = "crashed"]
  /\ UNCHANGED <<call, HAS_DEEPDIFF, history_dir, snapshot_dir, now, snapFile,
                 histFile, targetHistFile, summaryFile, task, lastRun, lastUTH, remote>>

\* main.py:412-422: the pages are generated and os._exit(0) ends the process
Exit ==
  /\ orch.pc = "pages"
  /\ orch' = [orch EXCEPT !.pc = "exited"]
  /\ UNCHANGED <<call, HAS_DEEPDIFF, history_dir, snapshot_dir, now, snapFile,
                 histFile, targetHistFile, summaryFile, task, lastRun, lastUTH, remote>>

\* what an earlier run has left for a record it has seen
Established ==
  [snap |-> JsonFile(Rec("RECRUITING", "b1", "v1")),
   hist |-> JsonFile(<< Entry(0, INITIAL) >>)]
Fresh == [snap |-> Absent, hist |-> Absent]

\* main.py:290-291: the summary an earlier run has saved for a group
SummaryEstablished ==
  JsonFile(<< [id |-> "NCT01", status |-> "RECRUITING",
               monitor_status |-> "No Change",
               last_monitored_change |-> DateVal(0),
               changed_today |-> FALSE] >>)

TargetEstablished ==
  JsonFile(<< [timestamp |-> strftime(0),
               event |-> [kind |-> "Initial data collection", n |-> 1,
                          ids |-> <<>>]] >>)

\* the versions the source serves while main() runs
RunPayloads == { Rec("RECRUITING", "b1", "v1"), Rec("COMPLETED", "b1", "v1") }

\* main() starts on the files of earlier runs: NCT01 and its group have been
\* seen before, NCT02 and the second group are new in trials.yaml; deepdiff
\* is installed (both modes of the detector are exercised under SpecCalls)
Init ==
  /\ HAS_DEEPDIFF = TRUE
  /\ snapshot_dir = TRUE
  /\ history_dir = TRUE
  /\ call = NoCall
  /\ now = Window - 1
  /\ snapFile = [i \in Ids |-> IF i = "NCT01" THEN Established.snap
                                ELSE Fresh.snap]
  /\ histFile = [i \in Ids |-> IF i = "NCT01" THEN Established.hist
                                ELSE Fresh.hist]
  /\ targetHistFile = [n \in TargetNames |->
                         IF n = "tigit" THEN TargetEstablished ELSE Absent]
  /\ summaryFile = [n \in TargetNames |->
                      IF n = "tigit" THEN SummaryEstablished ELSE Absent]
  /\ task = [k \in TaskIds |-> IdleTask]
  /\ lastRun = [i \in Ids |-> NoRun]
  /\ lastUTH = NoUTH
  /\ orch = IdleOrch
  /\ remote = [i \in Ids |-> IF i = "NCT01" THEN RunPayloads
                              ELSE {Rec("RECRUITING", "b1", "v1")}]

\* PER_TRIAL_TIMEOUT (main.py:325) has passed since the thread began the
\* record, while the fetch is still under way and the group deadline,
\* TARGET_TIMEOUT > PER_TRIAL_TIMEOUT, has not
Overrun(k) ==
  /\ At(k, "fetch")
  /\ InLoop /\ orch.gi = task[k].grp /\ ~orch.expired
  /\ ~task[k].slow
  /\ task' = [task EXCEPT ![k].slow = TRUE]
  /\ UNCHANGED <<call, HAS_DEEPDIFF, history_dir, snapshot_dir, now, snapFile,
                 histFile, targetHistFile, summaryFile, lastRun, lastUTH, orch, remote>>

Next ==
  \/ Submit \/ AcStart \/ AcCheck \/ AcWait \/ Body \/ Shutdown
  \/ SaveTarget \/ Summarize \/ Exit
  \/ ExpireDeadline
  \/ \E k \in TaskIds : StartQueued(k) \/ TaskStep(k) \/ SetResult(k)

\* one run of main()
Spec == Init /\ [][Next]_vars

NextTimed ==
  \/ Next
  \/ \E k \in TaskIds : Overrun(k)

\* as Init, with a source that serves every record as it is stored
InitTimed ==
  /\ HAS_DEEPDIFF = TRUE
  /\ snapshot_dir = TRUE
  /\ history_dir = TRUE
  /\ call = NoCall
  /\ now = Window - 1
  /\ snapFile = [i \in Ids |-> IF i = "NCT01" THEN Established.snap
                                ELSE Fresh.snap]
  /\ histFile = [i \in Ids |-> IF i = "NCT01" THEN Established.hist
                                ELSE Fresh.hist]
  /\ targetHistFile = [n \in TargetNames |->
                         IF n = "tigit" THEN TargetEstablished ELSE Absent]
  /\ summaryFile = [n \in TargetNames |->
                      IF n = "tigit" THEN SummaryEstablished ELSE Absent]
  /\ task = [k \in TaskIds |-> IdleTask]
  /\ lastRun = [i \in Ids |-> NoRun]
  /\ lastUTH = NoUTH
  /\ orch = IdleOrch
  /\ remote = [i \in Ids |-> {Rec("RECRUITING", "b1", "v1")}]

\* one run of main() in which records may take longer than PER_TRIAL_TIMEOUT
SpecTimed == InitTimed /\ [][NextTimed]_vars

\* as InitTimed, on a disk whose writes succeed
InitLive ==
  /\ HAS_DEEPDIFF = TRUE
  /\ snapshot_dir = TRUE
  /\ history_dir = TRUE
  /\ call = NoCall
  /\ now = Window - 1
  /\ snapFile = [i \in Ids |-> IF i = "NCT01" THEN Established.snap
                                ELSE Fresh.snap]
  /\ histFile = [i \in Ids |-> IF i = "NCT01" THEN Established.hist
                                ELSE Fresh.hist]
  /\ targetHistFile = [n \in TargetNames |->
                         IF n = "tigit" THEN TargetEstablished ELSE Absent]
  /\ summaryFile = [n \in TargetNames |->
                      IF n = "tigit" THEN SummaryEstablished ELSE Absent]
  /\ task = [k \in TaskIds |-> IdleTask]
  /\ lastRun = [i \in Ids |-> NoRun]
  /\ lastUTH = NoUTH
  /\ orch = [IdleOrch EXCEPT !.faults = MaxFaults]
  /\ remote = [i \in Ids |-> {Rec("RECRUITING", "b1", "v1")}]

\* the steps of the thread that runs main()
MainStep ==
  \/ Submit \/ AcStart \/ AcCheck \/ AcWait \/ Body \/ Shutdown
  \/ SaveTarget \/ Summarize \/ Exit

\* one run of main() in which the main thread keeps running and time keeps
\* passing; nothing is assumed of the pool threads, which may stay in a
\* fetch or a write for ever
SpecLive ==
  InitLive /\ [][Next]_vars /\ WF_vars(MainStep) /\ WF_vars(ExpireDeadline)

\* ------------------------------------------------------------------ pair
\* main.py:359-364: two pool threads, each on its own record
Workers == 1..2

InitPair ==
  /\ HAS_DEEPDIFF \in BOOLEAN
  /\ snapshot_dir = TRUE
  /\ history_dir \in BOOLEAN
  /\ call = NoCall
  /\ now = Window - 1
  /\ \E s \in {Absent, Established.snap} :
       snapFile = [i \in Ids |-> IF i = "NCT01" THEN s ELSE Absent]
  /\ \E h \in {Absent, Established.hist} :
       /\ h # Absent => history_dir
       /\ histFile = [i \in Ids |-> IF i = "NCT01" THEN h ELSE Absent]
  /\ targetHistFile = [n \in TargetNames |-> Absent]
  /\ summaryFile = [n \in TargetNames |-> Absent]
  /\ task = [k \in TaskIds |-> IdleTask]
  /\ lastRun = [i \in Ids |-> NoRun]
  /\ lastUTH = NoUTH
  /\ orch = [IdleOrch EXCEPT !.pc = "pair", !.faults = MaxFaults]
  /\ remote = [i \in Ids |->
                 {Rec("RECRUITING", "b1", "v1"), Rec("COMPLETED", "b1", "v1")}]

NextPair ==
  \E k \in Workers :
    \/ CallProcessTrial(k, TrialOf(k))
    \/ TaskStep(k)
    \/ UhExists(k)
    \/ UhMakedirs(k)

\* two threads run process_trial at the same time, on NCT01 and on NCT02,
\* with no write failing
SpecPair == InitPair /\ [][NextPair]_vars

\* ------------------------------------------------------------------ same
\* two threads run process_trial on the same record, NCT01, which an earlier
\* run has stored with its ledger: a duplicate id in a group, or an abandoned
\* thread of one group next to a thread of a later group
InitSame ==
  /\ HAS_DEEPDIFF \in BOOLEAN
  /\ snapshot_dir = TRUE
  /\ history_dir = TRUE
  /\ call = NoCall
  /\ now = Window - 1
  /\ snapFile = [i \in Ids |-> IF i = "NCT01" THEN Established.snap
                                ELSE Absent]
  /\ histFile = [i \in Ids |-> IF i = "NCT01" THEN Established.hist
                                ELSE Absent]
  /\ targetHistFile = [n \in TargetNames |-> Absent]
  /\ summaryFile = [n \in TargetNames |-> Absent]
  /\ task = [k \in TaskIds |-> IdleTask]
  /\ lastRun = [i \in Ids |-> NoRun]
  /\ lastUTH = NoUTH
  /\ orch = [IdleOrch EXCEPT !.pc = "pair", !.faults = MaxFaults]
  /\ remote = [i \in Ids |->
                 {Rec("RECRUITING", "b1", "v1"), Rec("COMPLETED", "b1", "v1"),
                  Rec("RECRUITING", "b2", "v1")}]

NextSame ==
  \E k \in Workers :
    \/ CallProcessTrial(k, "NCT01")
    \/ TaskStep(k)

SpecSame == InitSame /\ [][NextSame]_vars

\* time passes while threads are at work
Advance ==
  /\ \E t \in ClockValues :
       /\ t > now
       /\ now' = t
  /\ UNCHANGED <<call, HAS_DEEPDIFF, history_dir, snapshot_dir, snapFile,
                 histFile, targetHistFile, summaryFile, task, lastRun, lastUTH, orch,
                 remote>>

NextClock ==
  \/ \E k \in Workers :
       \/ CallProcessTrial(k, "NCT01")
       \/ TaskStep(k)
       \/ UhStamp(k)
       \/ UhLoad(k)
  \/ Advance

\* as SpecSame, with a clock that moves between the statements of
\* update_history
SpecClock == InitSame /\ [][NextClock]_vars

\* ------------------------------------------------------------------ properties
\* a task that has returned a report from process_trial
Reported(t) == t.pc = "done" /\ t.outcome = "report"

Ledger(id) == safe_json_load(histFile[id], <<>>)

\* C1: when process_trial completes for an id right after a completed run for
\* the same id in which the fetch returned the same payload, the ledger and
\* the snapshot are exactly what the first run left: nothing was appended.
IdempotentReplay ==
  \A k \in TaskIds :
    LET t == task[k]
    IN (Reported(t) /\ lastRun[t.id].valid /\ lastRun[t.id].fetch = t.fetchRet)
         => /\ histFile[t.id] = lastRun[t.id].hist
            /\ snapFile[t.id] = lastRun[t.id].snap

\* a replay of a fetched payload whose first run recorded a difference
IdempotentReplayWitness ==
  \E k \in TaskIds :
    LET t == task[k]
    IN /\ Reported(t) /\ lastRun[t.id].valid
       /\ lastRun[t.id].fetch = t.fetchRet /\ t.fetchRet # Null
       /\ Ledger(t.id) # <<>>
       /\ Ledger(t.id)[Len(Ledger(t.id))].diff # << <<"Initial data collection">> >>

AbsenceIsNoDifference ==
  \A k \in TaskIds :
    LET t == task[k]
    IN (Reported(t) /\ t.preSnap = Absent /\ t.preHist = Absent)
         => /\ t.report.monitor_status = "No Change"
            /\ ~t.report.changed_today

AbsenceWitness ==
  \E k \in TaskIds :
    LET t == task[k]
    IN /\ Reported(t) /\ t.preSnap = Absent /\ t.preHist = Absent
       /\ t.report.monitor_status = "No Change" /\ Len(Ledger(t.id)) = 1

\* C4: a report of a run in which the detector found a difference is flagged
\* changed_today and has monitor_status "Changed".
DifferenceIsReported ==
  \A k \in TaskIds :
    LET t == task[k]
    IN (Reported(t) /\ t.diffFound)
         => /\ t.report.changed_today
            /\ t.report.monitor_status = "Changed"

DifferenceWitness ==
  \E k \in TaskIds :
    LET t == task[k]
    IN /\ Reported(t) /\ t.diffFound /\ t.preSnap.kind = "json"
       /\ t.preSnap.val # t.fetchRet /\ Len(Ledger(t.id)) >= 2

\* the age in ticks of a ledger entry
Age(e) == now - (e.timestamp.date * TicksPerDay + e.timestamp.time)

IsInitialEntry(e) == e.diff = << <<"Initial data collection">> >>

\* C5: with no difference in this run, the status is "Changed" when some
\* entry other than the initial marker is less than 30 days old, and
\* "No Change" when every such entry is more than 30 days old or there is
\* none; initial entries never make it "Changed".
ThirtyDayWindow ==
  \A k \in TaskIds :
    LET t == task[k]
        h == Ledger(t.id)
        others == { i \in 1..Len(h) : ~IsInitialEntry(h[i]) }
    IN (Reported(t) /\ ~t.diffFound)
         => /\ (\E i \in others : Age(h[i]) < WINDOW_DAYS * TicksPerDay)
                 => t.report.monitor_status = "Changed"
            /\ (\A i \in others : Age(h[i]) > WINDOW_DAYS * TicksPerDay)
                 => t.report.monitor_status = "No Change"

\* an unchanged record whose earlier change is still inside the window, next
\* to an initial entry
ThirtyDayWitness ==
  \E k \in TaskIds :
    LET t == task[k]
        h == Ledger(t.id)
    IN /\ Reported(t) /\ ~t.diffFound /\ Len(h) = 2
       /\ IsInitialEntry(h[1]) /\ ~IsInitialEntry(h[2])
       /\ Age(h[2]) > 0
       /\ t.report.monitor_status = "Changed"

\* C6: update_history on a ledger file that does not parse leaves a ledger of
\* exactly one entry, the one just appended (the call got as far as returning).
CorruptionRecovery ==
  \A k \in TaskIds :
    LET t == task[k]
    IN (t.pc = "lookback" /\ t.site # "" /\ t.preHist = Corrupt)
         => /\ histFile[t.id].kind = "json"
            /\ Ledger(t.id) = << [timestamp |-> strftime(now), diff |-> t.diff_text] >>

CorruptionRecoveryWitness ==
  \E k \in TaskIds :
    LET t == task[k]
    IN /\ t.pc = "lookback" /\ t.site = "diff" /\ t.preHist = Corrupt
       /\ Len(Ledger(t.id)) = 1

\* C7: a call on a group whose ledger is not empty, with no report flagged
\* changed in this run, writes nothing and leaves the group ledger as it was.
GroupNoOp ==
  (/\ lastUTH.called
   /\ lastUTH.pre.kind = "json" /\ lastUTH.pre.val # <<>>
   /\ \A i \in 1..Len(lastUTH.reports) : ~lastUTH.reports[i].changed_today)
    => /\ ~lastUTH.wrote
       /\ lastUTH.post = lastUTH.pre
       /\ targetHistFile[lastUTH.target] = lastUTH.pre

\* such a call with a report that is "Changed" only through the window
GroupNoOpWitness ==
  /\ lastUTH.called /\ lastUTH.pre.kind = "json" /\ lastUTH.pre.val # <<>>
  /\ Len(lastUTH.reports) = 2
  /\ \A i \in 1..2 : ~lastUTH.reports[i].changed_today
  /\ lastUTH.reports[1].monitor_status = "Changed"

FlaggedIds(reports) ==
  { reports[i].id : i \in { j \in 1..Len(reports) : reports[j].changed_today } }

\* C8: a call appends at most one event; on an empty read it is the initial
\* event carrying the number of reports; otherwise, when some report is
\* flagged changed_today, it lists exactly the flagged ids.
GroupEventContent ==
  LET h0 == safe_json_load(lastUTH.pre, <<>>)
      h1 == safe_json_load(lastUTH.post, <<>>)
      r == lastUTH.reports
  IN (lastUTH.called /\ ~lastUTH.raised)
       => /\ lastUTH.wrote => (Len(h1) = Len(h0) + 1 /\ SubSeq(h1, 1, Len(h0)) = h0)
          /\ ~lastUTH.wrote => lastUTH.post = lastUTH.pre
          /\ h0 = <<>> =>
               /\ lastUTH.wrote
               /\ h1[1].event.kind = "Initial data collection"
               /\ h1[1].event.n = Len(r)
          /\ (h0 # <<>> /\ FlaggedIds(r) # {}) =>
               /\ lastUTH.wrote
               /\ h1[Len(h1)].event.kind = "Changes detected"
               /\ h1[Len(h1)].event.n = Cardinality(FlaggedIds(r))
               /\ Len(h1[Len(h1)].event.ids) = Cardinality(FlaggedIds(r))
               /\ { h1[Len(h1)].event.ids[i] :
                      i \in 1..Len(h1[Len(h1)].event.ids) } = FlaggedIds(r)

\* a changes event for a list with one flagged report and one that is
\* "Changed" without being flagged
GroupEventWitness ==
  /\ lastUTH.called /\ ~lastUTH.raised /\ lastUTH.wrote
  /\ safe_json_load(lastUTH.pre, <<>>) # <<>>
  /\ Len(lastUTH.reports) = 2
  /\ lastUTH.reports[1].changed_today
  /\ ~lastUTH.reports[2].changed_today
  /\ lastUTH.reports[2].monitor_status = "Changed"

\* the ids of the reports main() has collected for the current group
ReportIds ==
  { orch.target_reports[i].id : i \in 1..Len(orch.target_reports) }

\* the report list holds one report for each record of S and nothing else
OnePerRecord(S) ==
  /\ Len(orch.target_reports) = Cardinality(S)
  /\ ReportIds = { task[k].id : k \in S }
  /\ \A k \in S : \E i \in 1..Len(orch.target_reports) :
        orch.target_reports[i] = task[k].report

\* the fetch returned None and there was no snapshot to fall back on
FetchFailed(t) == t.fetchRet = Null /\ t.outcome = "skipped"

\* the loop over as_completed has ended without the group timing out
LoopEnded == orch.pc = "save" /\ ~orch.timedOut

\* main() stops early only in the write of the global summary, after the
\* summary of the current group was appended: nothing escaped the loop
NoEscape == orch.pc = "crashed" => Len(orch.target_summaries) = orch.gi

FailureIsolation ==
  /\ orch.pc = "crashed" => ~(orch.gi > Len(orch.target_summaries))
  /\ orch.pc = "save" =>
       \A k \in TasksOf(orch.gi) :
         (task[k].pc \in {"done", "finished"} /\ task[k].outcome = "raised")
           => /\ task[k].id \notin ReportIds
              /\ \A j \in TasksOf(orch.gi) \ {k} :
                   (/\ task[j].pc = "finished"
                    /\ task[j].beforeDeadline
                    /\ task[j].outcome = "report")
                     => \E i \in 1..Len(orch.target_reports) :
                          orch.target_reports[i] = task[j].report

\* a group in which one record raised and was handed to the loop, and the
\* other finished before the deadline and has its report in the list
FailureIsolationWitness ==
  /\ orch.pc = "save"
  /\ \E k, j \in TasksOf(orch.gi) :
       /\ task[k].pc = "finished" /\ task[k].outcome = "raised"
       /\ k \notin orch.pending
       /\ task[j].pc = "finished" /\ task[j].beforeDeadline
       /\ task[j].outcome = "report"
       /\ orch.target_reports = << task[j].report >>

\* the threads that take a step of process_trial on record i
Steppers(i) ==
  { k \in TaskIds : task[k].id = i /\ Running(k) /\ task'[k] # task[k] }

\* C11: a step changes the snapshot or the ledger of a record only when it is
\* a step of a thread processing that very record; whatever happens to the
\* processing of another record (success, failure, timeout), it does not.
CrossRecordFrame ==
  [][\A i \in Ids :
       (snapFile'[i] # snapFile[i] \/ histFile'[i] # histFile[i])
         => Steppers(i) # {}]_vars

\* the processing of one record has failed in the middle of a write after
\* its group timed out, while another record has its files stored
CrossRecordWitness ==
  \E k \in TaskIds : \E i \in Ids \ {task[k].id} :
    /\ task[k].pc = "done" /\ task[k].outcome = "raised"
    /\ orch.gi > task[k].grp
    /\ snapFile[task[k].id] = Corrupt
    /\ snapFile[i].kind = "json" /\ histFile[i].kind = "json"

\* C12 as stated: in every reachable state the snapshot file of a record is
\* missing (never written) or holds a complete payload; it is never empty,
\* cut short or otherwise unparseable, whoever reads it and whenever.
SnapshotAllOrNothing ==
  \A i \in Ids : snapFile[i].kind \in {"absent", "json"}

\* the process has exited after a group timeout while an abandoned thread
\* stood between open(filepath, 'w') and json.dump: the snapshot that held a
\* complete payload when main() started is left empty on disk
SnapshotTornAtExit ==
  /\ orch.pc = "exited"
  /\ \E k \in TaskIds :
       /\ task[k].pc = "ss_dump"
       /\ task[k].preSnap.kind = "json"
       /\ snapFile[task[k].id] = Corrupt

\* C13: whenever process_trial has returned a report for a record, the stored
\* snapshot of that record is the payload the report was computed from,
\* difference or not; and a snapshot file that exists never goes missing.
UnconditionalSnapshotUpdate ==
  /\ [](\A k \in TaskIds :
          Reported(task[k]) =>
            snapFile[task[k].id] = JsonFile(task[k].new_data))
  /\ [][\A i \in Ids : Exists(snapFile[i]) => Exists(snapFile'[i])]_vars

\* a report without a difference, for a payload that is not the stored one
\* (only an unwatched field moved): the snapshot was rewritten all the same
UnconditionalSnapshotWitness ==
  \E k \in TaskIds :
    /\ Reported(task[k])
    /\ ~task[k].diffFound
    /\ task[k].preSnap.kind = "json"
    /\ task[k].preSnap # JsonFile(task[k].new_data)
    /\ snapFile[task[k].id] = JsonFile(task[k].new_data)

\* C14: when save_snapshot(id, r) has returned, the snapshot directory exists
\* and reading the snapshot of id yields r, whatever the file held before the
\* call: nothing, an unparseable text, or the payload of an earlier call.
StoreRoundTrip ==
  \A k \in TaskIds :
    Reported(task[k]) =>
      /\ snapshot_dir
      /\ safe_json_load(snapFile[task[k].id], Null) = task[k].new_data

\* the second of two calls for the same id has returned: the file held the
\* first call's payload, and now reads as the second, different one
StoreOverwriteWitness ==
  \E k \in TaskIds :
    /\ Reported(task[k])
    /\ task[k].preSnap.kind = "json"
    /\ task[k].preSnap.val # task[k].new_data
    /\ safe_json_load(snapFile[task[k].id], Null) = task[k].new_data
    /\ snapshot_dir

IsPrefix(a, b) == Len(a) <= Len(b) /\ SubSeq(b, 1, Len(a)) = a

\* C15: once update_history has returned on a ledger that was readable, the
\* ledger is the previous sequence, entry for entry and in the same order,
\* followed by the one new entry; and with one thread per record a readable
\* ledger always begins with what it held when the call began and with what it
\* held when the previous call returned, so that no entry is removed, altered
\* or moved.
AppendOnlyLedger ==
  /\ \A k \in TaskIds :
       (task[k].changed_today /\ task[k].preHist.kind = "json") =>
         histFile[task[k].id] =
           JsonFile(Append(task[k].preHist.val, Entry(now, task[k].diff_text)))
  /\ \A k \in TaskIds :
       (task[k].pc # "idle" /\ task[k].preHist.kind = "json"
          /\ histFile[task[k].id].kind = "json") =>
         IsPrefix(task[k].preHist.val, histFile[task[k].id].val)
  /\ \A i \in Ids :
       (lastRun[i].valid /\ lastRun[i].hist.kind = "json"
          /\ histFile[i].kind = "json") =>
         IsPrefix(lastRun[i].hist.val, histFile[i].val)

\* a difference was recorded in a ledger that already held an entry, in a
\* call that follows an earlier call on the same record
AppendOnlyWitness ==
  \E k \in TaskIds :
    /\ Reported(task[k])
    /\ task[k].changed_today
    /\ task[k].preHist.kind = "json" /\ Len(task[k].preHist.val) >= 1
    /\ lastRun[task[k].id].valid
    /\ lastRun[task[k].id].hist = task[k].preHist
    /\ histFile[task[k].id].kind = "json"
    /\ Len(histFile[task[k].id].val) = Len(task[k].preHist.val) + 1

\* C16 as stated: in every reachable state a record ledger that holds entries
\* begins with the "Initial data collection" entry.
LedgerStartsWithMarker ==
  \A i \in Ids :
    HistLen(histFile[i]) > 0 =>
      safe_json_load(histFile[i], <<>>)[1].diff = INITIAL

\* process_trial has returned a report after it found a difference while the
\* ledger file was missing or unparseable: the ledger now begins with the
\* difference entry
LedgerStartsWithDifference ==
  \E k \in TaskIds :
    /\ Reported(task[k])
    /\ task[k].site = "diff"
    /\ task[k].preSnap.kind = "json"
    /\ task[k].preHist.kind \in {"absent", "corrupt"}
    /\ histFile[task[k].id] =
         JsonFile(<< Entry(now, task[k].diff_text) >>)
    /\ task[k].diff_text # INITIAL

InReports(k) ==
  \E n \in 1..Len(orch.target_reports) :
    orch.target_reports[n].id = task[k].id

\* C17 as stated: a record of the current group whose processing took longer
\* than PER_TRIAL_TIMEOUT and ended before the group deadline has no report in
\* the group's list.
PerItemTimeout ==
  \A k \in TasksOf(orch.gi) :
    (task[k].slow /\ task[k].pc = "finished" /\ task[k].beforeDeadline)
      => ~InReports(k)

\* the group is collected without a group timeout and the report of a record
\* that overran PER_TRIAL_TIMEOUT is in the list handed to save_target_data
SlowRecordReported ==
  /\ orch.pc = "save" /\ ~orch.timedOut /\ ~orch.expired
  /\ \E k \in TasksOf(orch.gi) :
       /\ task[k].slow /\ task[k].pc = "finished" /\ task[k].beforeDeadline
       /\ task[k].outcome = "report"
       /\ InReports(k)

\* every future the loop body receives from as_completed is finished, so the
\* wait in future.result(timeout=PER_TRIAL_TIMEOUT) never begins
BatchFinished ==
  \A n \in 1..Len(orch.batch) : task[orch.batch[n]].pc = "finished"

\* C18 as stated: a record of the current group whose thread finished after
\* the deadline of the group had passed has no report in the group's list,
\* and a report the loop has appended stays in the list, in its place, until
\* the list is handed to save_target_data, update_target_history and the
\* summary (the list starts afresh only with the next group).
GroupTimeout ==
  /\ [](\A k \in TasksOf(orch.gi) :
          (task[k].pc = "finished" /\ ~task[k].beforeDeadline)
            => ~InReports(k))
  /\ [][orch.pc # "submit"
          => IsPrefix(orch.target_reports, orch'.target_reports)]_vars

\* the deadline passed while as_completed was waiting, a thread finished with
\* a report before as_completed took the list of finished futures, and the
\* loop body appended that report
LateResultAdded ==
  \E k \in TasksOf(orch.gi) :
    /\ orch.expired
    /\ task[k].pc = "finished" /\ ~task[k].beforeDeadline
    /\ task[k].outcome = "report"
    /\ InReports(k)

InFlight(g) == { k \in TasksOf(g) : Running(k) }

\* C19: at every moment at most MAX_WORKERS records of a group are being
\* fetched or processed; a submitted record beyond that number stays queued
\* for as long as no thread of the group's pool is free.
WorkerCap ==
  \A g \in 1..Len(TARGETS) : Cardinality(InFlight(g)) <= MAX_WORKERS

\* the pool of the current group is full and a submitted record waits
WorkerCapWitness ==
  /\ Cardinality(InFlight(orch.gi)) = MAX_WORKERS
  /\ \E k \in TasksOf(orch.gi) : task[k].pc = "queued"
  /\ \E k \in InFlight(orch.gi) : task[k].pc \notin {"fetch", "done"}

\* C20 as stated: when main() has finished with the files of a group and
\* turns to the summary, update_target_history has been called exactly once
\* for that group, whatever the reports and whatever became of
\* save_target_data.
GroupEventOnce ==
  orch.pc = "summary" => orch.uth_calls = 1

\* a group with a report for which save_target_data raised: main() is at the
\* summary and update_target_history has not been called
GroupEventSkipped ==
  /\ orch.pc = "summary"
  /\ orch.target_reports # <<>>
  /\ orch.uth_calls = 0

\* C21: for a snapshot that is missing or does not parse, compare_snapshots
\* returns None for every new record; and a call of process_trial that fetched
\* a record and found such a snapshot records no difference, does not flag
\* the report, leaves the ledger as it was or gives it the initial entry, and
\* has stored the new record when it returns its report.
DetectorRobust ==
  /\ \A p \in Payloads :
       /\ compare_snapshots(Absent, p) = NoneDiff
       /\ compare_snapshots(Corrupt, p) = NoneDiff
  /\ \A k \in TaskIds :
       (/\ task[k].pc \notin {"idle", "fetch"}
        /\ task[k].fetchRet # Null
        /\ task[k].preSnap.kind \in {"absent", "corrupt"}) =>
         /\ ~task[k].diffFound /\ ~task[k].changed_today
         /\ task[k].site # "diff"
         /\ histFile[task[k].id] \in
              {task[k].preHist, Corrupt,
               JsonFile(Append(safe_json_load(task[k].preHist, <<>>),
                               Entry(now, INITIAL)))}
         /\ Reported(task[k]) =>
              /\ snapFile[task[k].id] = JsonFile(task[k].new_data)
              /\ ~task[k].report.changed_today

\* a report for a fetched record whose stored snapshot did not parse: no
\* difference, no flag, and the snapshot now holds the new record
DetectorRobustWitness ==
  \E k \in TaskIds :
    /\ Reported(task[k])
    /\ task[k].fetchRet # Null
    /\ task[k].preSnap = Corrupt
    /\ ~task[k].report.changed_today
    /\ snapFile[task[k].id] = JsonFile(task[k].new_data)

\* the value a record holds at a path below its protocol section, anything
\* missing on the way counting as the empty structure
RECURSIVE Present(_, _)
Present(v, path) ==
  path = <<>> \/ (HasKey(v, Head(path)) /\ Present(Item(v, Head(path)), Tail(path)))
RECURSIVE Fetched(_, _)
Fetched(v, path) ==
  IF path = <<>> THEN v ELSE Fetched(Item(v, Head(path)), Tail(path))
ValueAt(record, path) ==
  LET full == <<"protocolSection">> \o path
  IN IF Present(record, full) THEN Fetched(record, full) ELSE EmptyObj

WatchedDiffer(old, new) ==
  { i \in 1..Len(WatchedPaths) :
      ValueAt(old, WatchedPaths[i].path) # ValueAt(new, WatchedPaths[i].path) }

FormatDiffProper ==
  call.fn = "format_diff" =>
    LET empty == \/ call.diff.isNone
                 \/ /\ call.diff.changes = {} /\ call.diff.added = {}
                    /\ call.diff.removed = {} /\ call.diff.other = {}
    IN /\ call.ret = <<>> <=> empty
       /\ ~empty =>
            /\ call.ret # INITIAL
            /\ ~IsInitialEntry(Entry(now, call.ret))
            /\ MonitorStatus(<< Entry(now, call.ret) >>, now) = "Changed"

\* a difference made only of categories format_diff has no line for has been
\* formatted, with deepdiff installed
FormatDiffWitness ==
  /\ call.fn = "format_diff"
  /\ HAS_DEEPDIFF
  /\ ~call.diff.isNone
  /\ call.diff.changes = {} /\ call.diff.added = {}
  /\ call.diff.removed = {} /\ call.diff.other # {}
  /\ call.ret # <<>>

\* what a call whose fetch returned nothing and that found a readable
\* snapshot has done so far: the record in hand is the stored one, no
\* difference was found or recorded, and the ledger is as it was or has
\* received the initial entry
FromSnapshot(t) ==
  /\ t.new_data = t.preSnap.val
  /\ ~t.diffFound /\ ~t.changed_today /\ t.site # "diff"
  /\ histFile[t.id] \in
       {t.preHist, Corrupt,
        JsonFile(Append(safe_json_load(t.preHist, <<>>), Entry(now, INITIAL)))}

NothingWritten(t) ==
  snapFile[t.id] = t.preSnap /\ histFile[t.id] = t.preHist

\* C24 as stated: a call of process_trial whose fetch returned nothing ends
\* with a report computed from the stored snapshot, without a difference
\* entry and without the flag, when the snapshot is readable; otherwise it
\* ends without a report, without an exception and without a write.
FallbackAsStated ==
  \A k \in TaskIds :
    (task[k].pc = "done" /\ task[k].fetchRet = Null) =>
      IF task[k].preSnap.kind = "json"
      THEN /\ task[k].outcome = "report"
           /\ FromSnapshot(task[k])
           /\ task[k].report = ReportOf(task[k])
           /\ task[k].report.status
                = task[k].preSnap.val.protocolSection.overallStatus
      ELSE task[k].outcome = "skipped" /\ NothingWritten(task[k])

\* C24, amended: as stated, except that with a readable snapshot the call may
\* also end with the exception of a failed write of the ledger or of the
\* snapshot; it never ends without a report for lack of data, and a report it
\* returns is computed from the stored snapshot.
FallbackUsesSnapshot ==
  \A k \in TaskIds :
    (task[k].pc \notin {"idle", "fetch"} /\ task[k].fetchRet = Null) =>
      IF task[k].preSnap.kind = "json"
      THEN /\ FromSnapshot(task[k])
           /\ task[k].pc = "done" =>
                /\ task[k].outcome \in {"report", "raised"}
                /\ task[k].outcome = "report" =>
                     /\ task[k].report = ReportOf(task[k])
                     /\ task[k].report.status
                          = task[k].preSnap.val.protocolSection.overallStatus
      ELSE /\ task[k].pc = "done" /\ task[k].outcome = "skipped"
           /\ NothingWritten(task[k])

\* the fetch returned nothing, a snapshot was stored, and the call has
\* returned a report that shows the status of the stored record
FallbackWitness ==
  \E k \in TaskIds :
    /\ Reported(task[k])
    /\ task[k].fetchRet = Null
    /\ task[k].preSnap.kind = "json"
    /\ task[k].report.status
         = task[k].preSnap.val.protocolSection.overallStatus
    /\ ~task[k].report.changed_today

\* the lists a text of the bounded length can hold
ListValues ==
  { List(items) :
      items \in UNION { [1..n -> Literals] : n \in 0..(MaxText \div 2) } }

ValidJson(text) == \E value \in ListValues : dumps(value) = text

\* C25: safe_json_load never raises; on a file that holds a serialised value
\* it returns that value, and on a missing file or on any other text (empty,
\* cut short, malformed, undecodable) it returns the default, which is the
\* empty list when none is given.
SafeLoad ==
  call.fn = "safe_json_load" =>
    LET d == IF call.default = _SENTINEL THEN List(<<>>) ELSE call.default
    IN /\ ~call.ret.raised
       /\ \A value \in ListValues :
            (call.file.exists /\ call.file.text = dumps(value))
              => call.ret.val = value
       /\ (~call.file.exists \/ ~ValidJson(call.file.text))
            => call.ret.val = d
       /\ call.ret.val = safe_json_load(KindOf(call.file), d)

\* a file cut short in the middle of a two-element list, read with no default
\* given, came back as the empty list
SafeLoadWitness ==
  /\ call.fn = "safe_json_load"
  /\ call.file = [exists |-> TRUE, text |-> << "[", "a", ",", "b" >>]
  /\ call.default = _SENTINEL
  /\ call.ret = [raised |-> FALSE, val |-> List(<<>>)]

\* the groups main() has summarised so far
Summarised ==
  IF orch.pc \in {"pages", "exited"} THEN Len(TARGETS)
  ELSE IF orch.pc = "crashed" THEN orch.gi
  ELSE orch.gi - 1

ChangedReports ==
  { n \in 1..Len(orch.target_reports) :
      orch.target_reports[n].monitor_status = "Changed" }

\* C26: the summary list holds one entry per group summarised so far, in the
\* order of the configuration, each with the configured record count of its
\* group; the entry just appended counts the reports of the group's list
\* whose monitor_status is "Changed", and that count is at most the length of
\* the list, which is at most the record count.
GlobalSummary ==
  /\ Len(orch.target_summaries) = Summarised
  /\ \A g \in 1..Len(orch.target_summaries) :
       /\ orch.target_summaries[g].name = TARGETS[g].name
       /\ orch.target_summaries[g].trial_count = GroupSize(g)
       /\ orch.target_summaries[g].changed_count \in 0..GroupSize(g)
  /\ (Summarised >= 1 /\ orch.pc \in {"submit", "pages", "crashed"}) =>
       /\ orch.target_summaries[Summarised].changed_count
            = Cardinality(ChangedReports)
       /\ Cardinality(ChangedReports) <= Len(orch.target_reports)
       /\ Len(orch.target_reports) <= GroupSize(Summarised)

\* both groups are summarised; the first has two reports of which one is
\* "Changed", the second a report that is not
GlobalSummaryWitness ==
  /\ orch.pc = "pages"
  /\ Len(orch.target_summaries) = 2
  /\ orch.target_summaries[1].changed_count = 1
  /\ orch.target_summaries[1].trial_count = 2
  /\ orch.target_summaries[2].changed_count = 0
  /\ Len(orch.target_reports) = 1

\* C27 as stated: with groups configured nothing aborts the run: a run of
\* main() that has ended has processed and summarised every configured group.
OnlyEmptyConfigAborts ==
  orch.pc \in {"crashed", "exited"} =>
    Len(orch.target_summaries) = Len(TARGETS)

\* the run has ended while writing the summary after the first group, with
\* the second group never submitted
RunAbortedAfterFirstGroup ==
  /\ orch.pc = "crashed"
  /\ orch.gi = 1
  /\ \A k \in TasksOf(2) : task[k].pc = "idle"

\* C28: a call of process_trial that returns leaves the ledger of its record
\* with exactly one entry more than it could read when it began, after the
\* entries it read, if the detector found a difference (the entry is the
\* formatted difference) or found none while the ledger file did not exist
\* (the entry is the initial collection), and leaves the file as it was in
\* every other case; and in no state of a call has the ledger grown by more
\* than one entry.
LedgerAppendCondition ==
  \A k \in TaskIds :
    LET t == task[k]
        before == safe_json_load(t.preHist, <<>>)
        after == Ledger(t.id)
    IN /\ t.pc # "idle" => Len(after) <= Len(before) + 1
       /\ (t.pc = "done" /\ t.outcome \in {"report", "skipped"}) =>
            IF t.outcome = "report" /\ (t.diffFound \/ t.preHist = Absent)
            THEN /\ histFile[t.id].kind = "json"
                 /\ Len(after) = Len(before) + 1
                 /\ IsPrefix(before, after)
                 /\ after[Len(after)].diff
                      = IF t.diffFound THEN t.diff_text ELSE INITIAL
                 /\ t.diffFound => after[Len(after)].diff # INITIAL
            ELSE histFile[t.id] = t.preHist

\* a fetched record without a stored ledger and without a difference: the
\* call has returned and the ledger holds the initial collection alone
InitialCollectionWitness ==
  \E k \in TaskIds :
    /\ Reported(task[k])
    /\ task[k].fetchRet # Null
    /\ ~task[k].diffFound
    /\ task[k].preHist = Absent
    /\ task[k].preSnap.kind = "json"
    /\ Len(Ledger(task[k].id)) = 1
    /\ Ledger(task[k].id)[1].diff = INITIAL

\* the call of thread k has appended its entry to the ledger
LedgerAppended(t) ==
  /\ t.site # ""
  /\ histFile[t.id].kind = "json"
  /\ Len(Ledger(t.id)) = Len(safe_json_load(t.preHist, <<>>)) + 1

\* C29 as stated: a call on a fetched record that was ended by an exception
\* after its ledger entry was appended has updated the snapshot too; and a
\* call that follows a call without a report never records again the
\* difference that is the last entry of the ledger.
PartialFailureOrdering ==
  \A k \in TaskIds :
    LET t == task[k]
    IN /\ (t.pc = "done" /\ t.outcome = "raised" /\ t.fetchRet # Null
             /\ LedgerAppended(t))
          => snapFile[t.id] = JsonFile(t.new_data)
       /\ (t.pc = "done" /\ t.site = "diff" /\ ~lastRun[t.id].valid
             /\ t.preHist.kind = "json" /\ t.preHist.val # <<>>)
          => t.preHist.val[Len(t.preHist.val)].diff # t.diff_text

\* the difference between the stored record and the fetched one is in the
\* ledger twice: the call before this one recorded it and ended without a
\* report and with the old snapshot in place, and this call, with the same
\* fetched record, has recorded it again
DuplicateChangeEvent ==
  \E k \in TaskIds :
    LET t == task[k]
        ledger == Ledger(t.id)
    IN /\ Reported(t) /\ t.fetchRet # Null /\ t.diffFound
       /\ ~lastRun[t.id].valid
       /\ t.preSnap.kind = "json" /\ t.preSnap.val # t.new_data
       /\ Len(ledger) >= 2
       /\ ledger[Len(ledger)].diff = t.diff_text
       /\ ledger[Len(ledger) - 1].diff = t.diff_text
       /\ ledger[Len(ledger) - 1].timestamp = ledger[Len(ledger)].timestamp

\* what process_trial leaves for its record when it runs from the files it
\* found at its start with no write failing: the record it reports stored as
\* the snapshot, and the ledger with the formatted difference or the initial
\* collection appended as main.py:239-253 decides
AloneData(t) ==
  IF t.fetchRet # Null THEN t.fetchRet ELSE safe_json_load(t.preSnap, Null)

AloneSnapshot(t) ==
  IF AloneData(t) = Null THEN t.preSnap ELSE JsonFile(AloneData(t))

AloneLedger(t) ==
  LET diff == compare_snapshots(t.preSnap, AloneData(t))
  IN IF AloneData(t) = Null THEN t.preHist
     ELSE IF Truthy(diff)
     THEN JsonFile(HistoryAppend(t.preHist, now, format_diff(diff)))
     ELSE IF ~Exists(t.preHist)
     THEN JsonFile(HistoryAppend(t.preHist, now, INITIAL))
     ELSE t.preHist

\* C30 as stated: when two threads process different records at the same
\* time and no write fails, each call ends with the snapshot and the ledger
\* of its record equal to what the call would have left had it run alone.
DistinctIdsNeverConflict ==
  \A k \in Workers :
    task[k].pc = "done" =>
      /\ snapFile[task[k].id] = AloneSnapshot(task[k])
      /\ histFile[task[k].id] = AloneLedger(task[k])

\* both records were fetched and neither had a ledger; one thread has stored
\* the initial collection and the snapshot of its record, the other was
\* ended by os.makedirs and has stored nothing
DirectoryRaceLost ==
  \E k \in Workers : \E j \in Workers \ {k} :
    /\ Reported(task[j])
    /\ task[k].pc = "done" /\ task[k].outcome = "raised"
    /\ task[k].fetchRet # Null /\ task[j].fetchRet # Null
    /\ histFile[task[j].id] = JsonFile(<< Entry(now, INITIAL) >>)
    /\ histFile[task[k].id] = Absent
    /\ snapFile[task[k].id] = Absent

\* C31 as stated: when two threads have processed the same record and both
\* have returned, the snapshot is the record one of them stored, the ledger
\* parses, and the entries the ledger held before either began are still its
\* first entries.
SameIdLastWriteWins ==
  (\A k \in Workers : Reported(task[k]) /\ task[k].id = "NCT01") =>
    /\ \E k \in Workers : snapFile["NCT01"] = JsonFile(task[k].new_data)
    /\ histFile["NCT01"].kind = "json"
    /\ IsPrefix(Established.hist.val, Ledger("NCT01"))

\* both threads have returned a report with a difference; the second read the
\* ledger while the first had it open for writing, and the ledger now holds
\* one difference entry and no longer the entry of the earlier run
LedgerHistoryLost ==
  /\ \A k \in Workers :
       /\ Reported(task[k]) /\ task[k].id = "NCT01"
       /\ task[k].changed_today
       /\ task[k].preHist = Established.hist
  /\ histFile["NCT01"].kind = "json"
  /\ Len(Ledger("NCT01")) = 1
  /\ Ledger("NCT01")[1].diff # INITIAL

\* C32: the report list of the group, the group ledgers and the global
\* summary change only in a step of main() itself (the loop body, the saving
\* of the group, the summary, the start of the next group), never in a step
\* of a thread running process_trial; main() being one thread, two such
\* writes never overlap.
SingleOwner ==
  [][(\/ orch'.target_reports # orch.target_reports
      \/ orch'.target_summaries # orch.target_summaries
      \/ targetHistFile' # targetHistFile)
       => /\ \A i \in Ids : Steppers(i) = {}
          /\ orch.pc \in {"submit", "body", "save", "summary"}
          /\ orch'.pc # orch.pc \/ orch.pc = "body"]_vars

\* main() has written the ledger of the second group from its report list
\* while a thread abandoned by the first group is still inside process_trial
SingleOwnerWitness ==
  /\ orch.pc = "summary" /\ orch.gi = 2
  /\ orch.uth_calls = 1
  /\ orch.target_reports # <<>>
  /\ targetHistFile[TARGETS[2].name].kind = "json"
  /\ \E k \in TasksOf(1) : Running(k)

\* the place of a record of the current group in the order in which the
\* futures of the group finished
Rank(id) ==
  CHOOSE n \in 1..Len(orch.completed) : TrialOf(orch.completed[n]) = id

\* C33 as stated: while a group is collected, its report list holds at most
\* one report per submitted record, each of a record whose future has
\* finished, and the reports stand in the order in which the futures finished.
ReportsInCompletionOrder ==
  (InLoop \/ orch.pc = "shutdown") =>
    /\ Len(orch.target_reports) <= GroupSize(orch.gi)
    /\ \A i, j \in 1..Len(orch.target_reports) :
         /\ \E n \in 1..Len(orch.completed) :
              TrialOf(orch.completed[n]) = orch.target_reports[i].id
         /\ i < j =>
              /\ orch.target_reports[i].id # orch.target_reports[j].id
              /\ Rank(orch.target_reports[i].id)
                   < Rank(orch.target_reports[j].id)

\* both records of the first group had finished, NCT01 first, before
\* as_completed began; the list holds the report of NCT02 before that of NCT01
ReportsOutOfOrder ==
  /\ orch.pc = "shutdown" /\ orch.gi = 1
  /\ orch.completed = << 1, 2 >>
  /\ Len(orch.target_reports) = 2
  /\ orch.target_reports[1].id = "NCT02"
  /\ orch.target_reports[2].id = "NCT01"

RunEnded == orch.pc \in {"exited", "crashed"}

GroupEnded(g) == orch.gi > g \/ orch.pc \in {"save", "summary", "pages"} \/ RunEnded

\* C34 as stated: every group ends and the run ends, whatever the threads do;
\* and a record that was still queued when the deadline of its group expired
\* is never started.
TerminationAsStated ==
  /\ <>RunEnded
  /\ [][\A k \in TasksOf(orch.gi) :
          (orch.expired /\ task[k].pc = "queued") => task'[k].pc # "fetch"]_vars

\* C34, amended: every group ends and the run ends, whatever the threads do;
\* once main() has shut the pool of a group down none of its records is
\* queued, and a cancelled record is never started.
TerminationWithoutWaiting ==
  /\ <>RunEnded
  /\ \A g \in 1..Len(TARGETS) : <>GroupEnded(g)
  /\ [](\A g \in 1..Len(TARGETS) : \A k \in TasksOf(g) :
          (g < orch.gi \/ (g = orch.gi /\ orch.pc \in {"save", "summary", "pages"}))
            => task[k].pc # "queued")
  /\ [][\A k \in TaskIds :
          task[k].pc = "cancelled" => task'[k].pc = "cancelled"]_vars

\* the run has ended although a thread of the first group never left its
\* fetch, and the record that was queued behind it was cancelled
TerminationWitness ==
  /\ orch.pc = "exited"
  /\ \E k \in TasksOf(1) : task[k].pc = "fetch"
  /\ \E k \in TasksOf(1) : task[k].pc = "cancelled"

NonDecreasing(entries) ==
  \A n \in 1..(Len(entries) - 1) :
    strptime(entries[n].timestamp) <= strptime(entries[n + 1].timestamp)

\* C35 as stated: in every state the timestamps of the entries of every
\* record ledger and of every group ledger never decrease along the ledger.
ChronologicalLedgers ==
  /\ \A i \in Ids : NonDecreasing(Ledger(i))
  /\ \A n \in TargetNames :
       NonDecreasing(safe_json_load(targetHistFile[n], <<>>))

\* the ledger of NCT01 holds the entry of the earlier run, then the entry of
\* the thread that took its timestamp last, then the entry of the thread that
\* took its timestamp first
LedgerOutOfOrder ==
  /\ histFile["NCT01"].kind = "json"
  /\ Len(Ledger("NCT01")) = 3
  /\ Ledger("NCT01")[1] = Established.hist.val[1]
  /\ strptime(Ledger("NCT01")[3].timestamp)
       < strptime(Ledger("NCT01")[2].timestamp)
  /\ \A k \in Workers : Reported(task[k])

\* the threads that are inside process_trial
Executing == { k \in TaskIds : Running(k) /\ task[k].pc # "done" }

\* C36 as stated: the threads inside process_trial at any moment all belong
\* to one group, and there are at most MAX_WORKERS of them.
GroupsOneAtATime ==
  /\ \A k, j \in Executing : GroupOf(k) = GroupOf(j)
  /\ Cardinality(Executing) <= MAX_WORKERS

\* a thread of the first group, abandoned at the group timeout, is writing
\* its snapshot while a thread of the second group is fetching
GroupsOverlap ==
  /\ orch.gi = 2
  /\ \E k \in TasksOf(1) : task[k].pc = "ss_dump"
  /\ \E j \in TasksOf(2) : task[j].pc = "fetch"
  /\ Cardinality(Executing) > MAX_WORKERS

\* the thread has appended a difference to the ledger of its record in this
\* run (main.py:242-248), or has returned a report that says so
RecordedChange(k) ==
  \/ task[k].changed_today
  \/ task[k].report # NoReport /\ task[k].report.changed_today

\* C37 as stated: when a group has been collected and saved, every record of
\* the group for which a difference was appended to the ledger in this run
\* has its report, flagged changed_today, in the report list of the group.
EveryChangeReported ==
  orch.pc = "summary" =>
    \A k \in TasksOf(orch.gi) :
      RecordedChange(k) =>
        \E n \in 1..Len(orch.target_reports) :
          /\ orch.target_reports[n].id = task[k].id
          /\ orch.target_reports[n].changed_today

\* the difference is the last entry of the ledger of the record, the write
\* of the snapshot has failed after it, and the group was collected and saved
\* without a report of the record
ChangeNotReported ==
  /\ orch.pc = "summary"
  /\ \E k \in TasksOf(orch.gi) :
       /\ task[k].pc \in {"done", "finished"}
       /\ task[k].outcome = "raised" /\ task[k].diffFound
       /\ Ledger(TrialOf(k)) # <<>>
       /\ Ledger(TrialOf(k))[Len(Ledger(TrialOf(k)))].diff # INITIAL
       /\ Established.hist.val = << Ledger(TrialOf(k))[1] >>
       /\ ~InReports(k)

\* C38 as stated: when a group has been collected and saved, the summary
\* stored for the group lists exactly the reports collected for it in this
\* run; a group without a report does not keep the summary of an earlier run.
SummaryFresh ==
  orch.pc = "summary" =>
    summaryFile[TARGETS[orch.gi].name] = JsonFile(orch.target_reports)

\* every record of the group has ended without a report (the write of a
\* ledger or a snapshot failed, the source gave nothing for a record never
\* seen before), nothing is still running, and the summary of the earlier
\* run is still in place
StaleSummaryKept ==
  /\ orch.pc = "summary" /\ ~orch.expired
  /\ orch.target_reports = <<>>
  /\ \A k \in TasksOf(orch.gi) :
       task[k].pc = "finished" /\ task[k].outcome # "report"
  /\ summaryFile[TARGETS[orch.gi].name] = SummaryEstablished

\* C39 as stated: whatever the ledger file of the id held before (nothing,
\* text that does not parse, an array of events, JSON of another shape),
\* update_history appends its event to what it read and does not raise, the
\* ledger it writes is an array that ends with that event, and the lookback
\* of process_trial does not raise.
LedgerShapeTolerance ==
  [][\A k \in TaskIds :
       /\ (task[k].pc = "uh_read" /\ task'[k] # task[k]) =>
            /\ task'[k].pc = "uh_open"
            /\ task'[k].hlocal # <<>>
            /\ task'[k].hlocal[Len(task'[k].hlocal)]
                 = Entry(now, task[k].diff_text)
       /\ (task[k].pc = "uh_dump" /\ task'[k].pc = "lookback") =>
            /\ histFile'[task[k].id].kind = "json"
            /\ Ledger(task[k].id)' = task[k].hlocal
       /\ (task[k].pc = "lookback" /\ task'[k] # task[k]) =>
            task'[k].pc = "ss_open"]_vars

\* process_trial has raised on a ledger that holds an object: the ledger and
\* the snapshot are as they were, no event was appended
MisshapenLedgerRaises ==
  \E k \in TaskIds :
    /\ task[k].pc = "done" /\ task[k].outcome = "raised"
    /\ task[k].preHist = NotAList
    /\ histFile[task[k].id] = NotAList
    /\ snapFile[task[k].id] = task[k].preSnap

\* C40: in every report process_trial returns, last_monitored_change is the
\* date of the last entry of the ledger of the id when the ledger reads as a
\* list with entries, the initial-collection entry counted; it is "No
\* changes yet" only when the ledger reads empty.
LastChangeDate ==
  \A k \in TaskIds :
    Reported(task[k]) =>
      LET ledger == Ledger(task[k].id)
          last == task[k].report.last_monitored_change
      IN /\ ledger # <<>> =>
              last = DateVal(DatePart(ledger[Len(ledger)].timestamp))
         /\ last = NoChangesYet => ledger = <<>>

\* a report returned days after the initial collection, with nothing but the
\* initial entry in the ledger: it carries the date of that entry
LastChangeDateWitness ==
  \E k \in TaskIds :
    /\ Reported(task[k])
    /\ now >= Window - 1
    /\ Ledger(task[k].id) = << Entry(0, INITIAL) >>
    /\ task[k].report.last_monitored_change = DateVal(0)
    /\ ~task[k].report.changed_today

====
